---- MODULE Spec2Model ----
(***************************************************************************)
(* Model of the vinylscrobbles pipeline: the audio segmenter of            *)
(* src/src/audio_processor.py (AudioProcessor), the provider failover of   *)
(* src/src/music_recognizer.py (MusicRecognizer.recognize_track), the      *)
(* hand-off between them, the delivery of src/src/maloja_scrobbler.py      *)
(* (MalojaScrobbler.scrobble_now) and the recognition threads of           *)
(* src/vinyl_recognizer.py (VinylRecognitionSystem.on_track_detected).     *)
(* SpecLifecycle adds the start and stop of monitoring with the capture    *)
(* threads and the device stream (start_monitoring, stop_monitoring).      *)
(*                                                                         *)
(* Time is counted in chunk periods: one blocking stream.read of           *)
(* chunk_size frames lasts one tick, and the samples of one chunk add one  *)
(* tick to len(current_recording) / (sample_rate * channels).              *)
(***************************************************************************)
EXTENDS Integers, Sequences, FiniteSets, TLC

\* ---------------------------------------------------------------- bounds
\* Number of clock ticks (chunk reads and read-error sleeps) explored.
MaxTicks == 12

\* ------------------------------------------------- configuration values
\* audio_config['silence_threshold'], in thousandths of full scale.
silence_threshold == 10
\* audio_config['silence_duration'], in chunk periods.
silence_duration == 2
\* audio_config['recording_duration'] (the minimum length), in chunk periods.
recording_duration == 2
\* audio_config['max_recording_duration'], in chunk periods.
max_recording_duration == 4

\* RMS levels a chunk can have (thousandths of full scale): below, at and
\* above the threshold.
Levels == {5, 10, 50}

\* Python's None for the two timers: a value no clock reading takes.
None == -1

VARIABLES
    now,                  \* time.time(), in ticks
    is_running,           \* AudioProcessor.is_running
    loop,                 \* where the _audio_loop thread is
    is_recording,         \* AudioProcessor.is_recording
    current_recording,    \* AudioProcessor.current_recording (one entry per chunk)
    silence_start_time,   \* AudioProcessor.silence_start_time
    music_start_time,     \* AudioProcessor.music_start_time
    last_track_end_time,  \* AudioProcessor.last_track_end_time
    files,                \* the spooled vinyl_track_*.wav files that exist
    threads,              \* the recognition threads started so far
    log,                  \* what the last step logged
    providers,            \* names of MusicRecognizer.providers
    enabled,              \* is_available() of each provider, now
    provider_order,       \* MusicRecognizer.provider_order
    init_config,          \* the order configured, and each provider's
                          \* is_available(), when __init__ ran
    rec,                  \* one recognize_track call: its locals and effects
    maloja,               \* MalojaScrobbler.enabled and .api_url
    history,              \* the history store of the database
    scrobble_queue,       \* the retry queue of the database
    posts,                \* the payloads POSTed to /newscrobble so far
    ret,                  \* the last scrobble_now call and what it returned
    stats,                \* VinylRecognitionSystem.stats
    dup_cache,            \* the tracks added to the duplicate detector
    delivered,            \* the queue_scrobble calls made so far
    loops,                \* the _audio_loop threads started so far
    stream,               \* AudioProcessor.stream: None or a stream handle
    handles,              \* the streams audio.open has returned so far
    audio_thread,         \* AudioProcessor._audio_thread: None or a thread
    caller                \* the thread calling start_/stop_monitoring

segvars == <<now, is_running, loop, is_recording, current_recording,
             silence_start_time, music_start_time, last_track_end_time,
             files, threads, log>>

recvars == <<providers, enabled, provider_order, init_config, rec>>

delvars == <<maloja, history, scrobble_queue, posts, ret>>

taskvars == <<stats, dup_cache, delivered>>

lifevars == <<loops, stream, handles, audio_thread, caller>>

vars == <<segvars, recvars, delvars, taskvars, lifevars>>

\* The clock at process start: time.time() is the Unix time, far beyond
\* silence_duration, while last_track_end_time starts at 0.
StartTime == silence_duration + 1

\* The segmenter fields as one record, the form the handlers work on.
\* fin is what _finish_recording did in this call up to the hand-off
\* ("discarded", "save_failed" or "spooled"), started whether
\* _start_recording began a recording, artifact the samples it spooled.
SegState ==
    [is_recording |-> is_recording,
     current_recording |-> current_recording,
     silence_start_time |-> silence_start_time,
     music_start_time |-> music_start_time,
     last_track_end_time |-> last_track_end_time,
     fin |-> "none",
     forced |-> FALSE,
     started |-> FALSE,
     artifact |-> <<>>]

\* len(current_recording) / (sample_rate * channels), in chunk periods.
RecordingDuration(buf) == Len(buf)

\* rms < self.silence_threshold
IsSilent(rms) == rms < silence_threshold

\* -------------------------------------------------- _finish_recording
FinishKeepsRecording(s, t, save_ok) ==
    IF ~s.is_recording \/ Len(s.current_recording) = 0
    THEN s
    ELSE IF RecordingDuration(s.current_recording) < recording_duration
         THEN [s EXCEPT !.last_track_end_time = t,
                        !.current_recording = <<>>, !.fin = "discarded"]
         ELSE IF save_ok
              THEN [s EXCEPT !.last_track_end_time = t,
                             !.artifact = s.current_recording,
                             !.current_recording = <<>>, !.fin = "spooled"]
              ELSE [s EXCEPT !.last_track_end_time = t,
                             !.current_recording = <<>>, !.fin = "save_failed"]

FinishEmitsShort(s, t, save_ok) ==
    IF ~s.is_recording \/ Len(s.current_recording) = 0
    THEN s
    ELSE LET s1 == [s EXCEPT !.is_recording = FALSE, !.last_track_end_time = t]
         IN  IF save_ok
             THEN [s1 EXCEPT !.artifact = s.current_recording,
                             !.current_recording = <<>>, !.fin = "spooled"]
             ELSE [s1 EXCEPT !.current_recording = <<>>, !.fin = "save_failed"]

FinishDiscardKeepsClock(s, t, save_ok) ==
    IF ~s.is_recording \/ Len(s.current_recording) = 0
    THEN s
    ELSE IF RecordingDuration(s.current_recording) < recording_duration
         THEN [s EXCEPT !.is_recording = FALSE, !.current_recording = <<>>,
                        !.fin = "discarded"]
         ELSE LET s1 == [s EXCEPT !.is_recording = FALSE,
                                  !.last_track_end_time = t]
              IN  IF save_ok
                  THEN [s1 EXCEPT !.artifact = s.current_recording,
                                  !.current_recording = <<>>,
                                  !.fin = "spooled"]
                  ELSE [s1 EXCEPT !.current_recording = <<>>,
                                  !.fin = "save_failed"]

FinishDiscardKeepsBuffer(s, t, save_ok) ==
    IF ~s.is_recording \/ Len(s.current_recording) = 0
    THEN s
    ELSE LET s1 == [s EXCEPT !.is_recording = FALSE, !.last_track_end_time = t]
         IN  IF RecordingDuration(s.current_recording) < recording_duration
             THEN [s1 EXCEPT !.fin = "discarded"]
             ELSE IF save_ok
                  THEN [s1 EXCEPT !.artifact = s.current_recording,
                                  !.current_recording = <<>>, !.fin = "spooled"]
                  ELSE [s1 EXCEPT !.current_recording = <<>>,
                                  !.fin = "save_failed"]

\* save_ok is whether _save_recording returned a path (it returns None when
\* mkstemp or the WAV write raises).
finish_recording(s, t, save_ok) ==
    IF ~s.is_recording \/ Len(s.current_recording) = 0
    THEN s
    ELSE LET s1 == [s EXCEPT !.is_recording = FALSE, !.last_track_end_time = t]
         IN  IF RecordingDuration(s.current_recording) < recording_duration
             THEN [s1 EXCEPT !.current_recording = <<>>, !.fin = "discarded"]
             ELSE IF save_ok
                  THEN [s1 EXCEPT !.artifact = s.current_recording,
                                  !.current_recording = <<>>, !.fin = "spooled"]
                  ELSE [s1 EXCEPT !.current_recording = <<>>,
                                  !.fin = "save_failed"]

\* --------------------------------------------------- _start_recording
StartRecordingAlways(s) ==
    [s EXCEPT !.is_recording = TRUE, !.current_recording = <<>>,
              !.started = TRUE]

start_recording(s) ==
    IF ~s.is_recording
    THEN [s EXCEPT !.is_recording = TRUE, !.current_recording = <<>>,
                   !.started = TRUE]
    ELSE s

\* ---------------------------------------------------- _handle_silence
SilenceFinishesAtOnce(s, current_time, save_ok) ==
    LET s1 == IF s.silence_start_time = None
              THEN [s EXCEPT !.silence_start_time = current_time]
              ELSE s
        s2 == IF s1.is_recording /\ Len(s1.current_recording) > 0
              THEN finish_recording(s1, current_time, save_ok)
              ELSE s1
    IN  [s2 EXCEPT !.music_start_time = None]

SilenceFinishesLate(s, current_time, save_ok) ==
    LET s1 == IF s.silence_start_time = None
              THEN [s EXCEPT !.silence_start_time = current_time]
              ELSE s
        silence == current_time - s1.silence_start_time
        s2 == IF /\ s1.is_recording
                 /\ silence > silence_duration
                 /\ Len(s1.current_recording) > 0
              THEN finish_recording(s1, current_time, save_ok)
              ELSE s1
    IN  [s2 EXCEPT !.music_start_time = None]

SilenceTimerRestartsAtFinalize(s, current_time, save_ok) ==
    LET s1 == IF s.silence_start_time = None
              THEN [s EXCEPT !.silence_start_time = current_time]
              ELSE s
        silence == current_time - s1.silence_start_time
        s2 == IF /\ s1.is_recording
                 /\ silence >= silence_duration
                 /\ Len(s1.current_recording) > 0
              THEN [finish_recording(s1, current_time, save_ok)
                       EXCEPT !.silence_start_time = current_time]
              ELSE s1
    IN  [s2 EXCEPT !.music_start_time = None]

SilenceIsRecorded(s, current_time, save_ok) ==
    LET s1 == IF s.silence_start_time = None
              THEN [s EXCEPT !.silence_start_time = current_time]
              ELSE s
        silence == current_time - s1.silence_start_time
        s2 == IF /\ s1.is_recording
                 /\ silence >= silence_duration
                 /\ Len(s1.current_recording) > 0
              THEN finish_recording(s1, current_time, save_ok)
              ELSE IF s1.is_recording
                   THEN [s1 EXCEPT !.current_recording = Append(@, current_time)]
                   ELSE s1
    IN  [s2 EXCEPT !.music_start_time = None]

handle_silence(s, current_time, save_ok) ==
    LET s1 == IF s.silence_start_time = None
              THEN [s EXCEPT !.silence_start_time = current_time]
              ELSE s
        silence == current_time - s1.silence_start_time
        s2 == IF /\ s1.is_recording
                 /\ silence >= silence_duration
                 /\ Len(s1.current_recording) > 0
              THEN finish_recording(s1, current_time, save_ok)
              ELSE s1
    IN  [s2 EXCEPT !.music_start_time = None]

\* ------------------------------------------------------ _handle_music
MusicRestartsAtOnce(s, current_time, chunk, save_ok) ==
    LET s1 == [s EXCEPT !.silence_start_time = None]
        s2 == start_recording(IF s1.music_start_time = None
                              THEN [s1 EXCEPT !.music_start_time = current_time]
                              ELSE s1)
        s3 == [s2 EXCEPT !.current_recording = Append(@, chunk)]
    IN  IF RecordingDuration(s3.current_recording) >= recording_duration
        THEN [finish_recording(s3, current_time, save_ok)
                 EXCEPT !.forced = TRUE]
        ELSE s3

\* chunk stands for the samples of audio_data.
handle_music(s, current_time, chunk, save_ok) ==
    LET s1 == [s EXCEPT !.silence_start_time = None]
        s2 == IF s1.music_start_time = None
              THEN LET m == [s1 EXCEPT !.music_start_time = current_time]
                   IN  IF current_time - m.last_track_end_time > silence_duration
                       THEN start_recording(m)
                       ELSE m
              ELSE s1
    IN  IF s2.is_recording
        THEN LET s3 == [s2 EXCEPT !.current_recording = Append(@, chunk)]
                 elapsed == current_time - s3.music_start_time
             IN  IF elapsed >= max_recording_duration
                 THEN [finish_recording(s3, current_time, save_ok)
                          EXCEPT !.forced = TRUE]
                 ELSE s3
        ELSE s2

\* ------------------------------------------------ _process_audio_chunk
process_audio_chunk(s, rms, current_time, save_ok) ==
    IF IsSilent(rms)
    THEN handle_silence(s, current_time, save_ok)
    ELSE handle_music(s, current_time, current_time, save_ok)

\* ------------------------------------------- a failed read in _audio_loop
ReadErrorDropsRecording(s) ==
    [s EXCEPT !.is_recording = FALSE, !.current_recording = <<>>]

\* The except clause around stream.read in _audio_loop: the error is logged
\* and the loop sleeps; no segmenter field is touched.
read_failed(s) == s

\* ------------------------------------- the hand-off in _finish_recording
\* threading.Thread(target=on_track_detected, args=(audio_file,)).start():
\* the thread is started and the capture loop goes on reading. start_ok is
\* whether start() succeeded; when it raises, the except clause logs the
\* error and no thread exists.
\* recognition_result before recognize_track has returned.
NoTaskResult == [success |-> FALSE, confidence |-> -1, track |-> "None"]

\* threading.Thread(target=self.on_track_detected, args=(audio_file,)): the
\* thread with its locals. pc is the statement of on_track_detected it is
\* at, tmp the counter value read by a "+= 1" under way, dup the answer of
\* is_duplicate, trace the collaborator calls the thread has made and the
\* except clause if it was entered.
Thread(audio_file) ==
    [audio_file |-> audio_file, pc |-> "running", result |-> NoTaskResult,
     tmp |-> 0, dup |-> "unknown", trace |-> <<>>]

HandOffInline(thr, audio_file, start_ok) ==
    IF start_ok
    THEN [threads |-> Append(thr, Thread(audio_file)),
          loop |-> "in_callback", fin |-> "emitted"]
    ELSE [threads |-> thr, loop |-> "read", fin |-> "start_failed"]

HandOffDropped(thr, audio_file, start_ok) ==
    IF start_ok
    THEN [threads |-> thr, loop |-> "read", fin |-> "emitted"]
    ELSE [threads |-> thr, loop |-> "read", fin |-> "start_failed"]

HandOffPrepends(thr, audio_file, start_ok) ==
    IF start_ok
    THEN [threads |-> <<Thread(audio_file)>> \o thr,
          loop |-> "read", fin |-> "emitted"]
    ELSE [threads |-> thr, loop |-> "read", fin |-> "start_failed"]

hand_off(thr, audio_file, start_ok) ==
    IF start_ok
    THEN [threads |-> Append(thr, Thread(audio_file)),
          loop |-> "read", fin |-> "emitted"]
    ELSE [threads |-> thr, loop |-> "read", fin |-> "start_failed"]

\* ----------------------------------- the stream and the capture threads
\* Number of start_monitoring calls that start a thread.
MaxStarts == 2

\* Number of clock ticks explored when monitoring is started and stopped.
MaxLifeTicks == 6

\* self.stream, and the state of each stream audio.open has returned:
\* "open", "closed", or "close_failed" after a stop_stream() or close() that
\* raised.
Device == [stream |-> stream, handles |-> handles]

\* stream.is_active(): a stream whose closing raised is taken as it was.
IsActive(d) == d.stream # None /\ d.handles[d.stream] # "closed"

\* _close_stream: with a stream set, stop_stream() and close() are called
\* and self.stream is cleared; when one of them raises (close_ok false) the
\* error is logged and self.stream stays set.
close_stream(d, close_ok) ==
    IF d.stream = None THEN d
    ELSE IF close_ok
         THEN [stream |-> None,
               handles |-> [d.handles EXCEPT ![d.stream] = "closed"]]
         ELSE [d EXCEPT !.handles[d.stream] = "close_failed"]

\* _open_stream when audio.open returns: self.stream is the new stream.
open_stream(d) ==
    [stream |-> Len(d.handles) + 1, handles |-> Append(d.handles, "open")]

\* A thread created by start_monitoring, about to run _audio_loop. pc is
\* where it is ("open": in _open_stream; "test": at the while condition;
\* "read": in stream.read; "dead": returned), handle the stream it is
\* reading, since_stop the chunks it processed with is_running false since
\* is_running was last set.
AudioLoop == [pc |-> "open", handle |-> None, since_stop |-> 0]

Alive(l) == l.pc # "dead"

\* The thread calling start_monitoring and stop_monitoring: pc is "joining"
\* while it waits in join, last the call it made last, timed_out whether
\* the join of the last stop_monitoring timed out.
CallerIdle == [pc |-> "idle", last |-> "none", timed_out |-> FALSE]

WhileIgnoresFlag(running, d) == IF IsActive(d) THEN "read" ELSE "sleep"

\* The head of a pass of _audio_loop: "while self.is_running", then
\* "if self.stream and self.stream.is_active()".
while_test(running, d) ==
    IF ~running THEN "exit"
    ELSE IF IsActive(d) THEN "read"
    ELSE "sleep"

\* start_monitoring: a warning and nothing else when is_running is set;
\* otherwise is_running is set and a daemon thread running _audio_loop is
\* created, kept in _audio_thread and started. The call returns at once.
start_monitoring(running, lps, at) ==
    IF running
    THEN [is_running |-> running, loops |-> lps, audio_thread |-> at,
          last |-> "already_running"]
    ELSE [is_running |-> TRUE,
          loops |-> Append([k \in DOMAIN lps |->
                              [lps[k] EXCEPT !.since_stop = 0]], AudioLoop),
          audio_thread |-> Len(lps) + 1,
          last |-> "started"]

\* ------------------------------------------------------ MusicRecognizer
\* The provider classes _initialize_providers can instantiate.
Names == {"audd", "shazam"}

\* What recognition_config['providers']['order'] may list: the two provider
\* names and a name no provider has.
OrderNames == Names \cup {"acrcloud"}

\* Longest configured order explored.
MaxOrder == 3

\* recognition_config['min_confidence'], in hundredths.
min_confidence == 60

\* Confidence values a provider may report (hundredths): two below the
\* threshold, the threshold and one above.
Confidences == {40, 50, 60, 90}

\* What one provider.recognize call can do: raise, return a failed result, or
\* return a match with some confidence.
Outcomes ==
    {[raised |-> TRUE, success |-> FALSE, confidence |-> 0]}
    \cup {[raised |-> FALSE, success |-> FALSE, confidence |-> c] : c \in {0, 90}}
    \cup {[raised |-> FALSE, success |-> TRUE, confidence |-> c] : c \in Confidences}

\* The RecognitionResult a provider returned.
ResultOf(name, outcome) ==
    [success |-> outcome.success, confidence |-> outcome.confidence,
     provider |-> name]

\* best_result = None, and recognize_track not returned yet.
NoResult == [success |-> FALSE, confidence |-> -1, provider |-> "None"]

\* The failure recognize_track returns when it has no best result.
NoMatch == [success |-> FALSE, confidence |-> 0, provider |-> "none"]

\* All sequences over S of length at most n.
SeqsUpTo(S, n) == UNION {[1..k -> S] : k \in 0..n}

ProviderOrderIgnoresConfig(configured_order, provs, avail) ==
    SelectSeq(<<"audd", "shazam">>, LAMBDA name : name \in provs /\ avail[name])

\* _get_provider_order: the configured order restricted to the names of the
\* providers that are available.
get_provider_order(configured_order, provs, avail) ==
    SelectSeq(configured_order, LAMBDA name : name \in provs /\ avail[name])

\* _cleanup_audio_file on the state of one call: the file is unlinked when it
\* exists (it lies in the temporary directory, where _save_recording put it).
\* unlink_ok is whether os.unlink succeeds; when it raises, the except clause
\* logs "Failed to clean up audio file" and the file stays on disk.
CleanupSkipped(r, unlink_ok) == r

cleanup_audio_file(r, unlink_ok) ==
    LET r1 == [r EXCEPT !.cleanups = @ + 1]
    IN  IF r.file_exists
        THEN IF unlink_ok
             THEN [r1 EXCEPT !.file_exists = FALSE, !.unlinks = @ + 1]
             ELSE [r1 EXCEPT !.unlink_failed = TRUE]
        ELSE r1

\* The state of a recognize_track call at its start: best_result = None, the
\* loop at the first name of provider_order, the audio file on disk.
RecStart ==
    [pc |-> "loop", idx |-> 1, best_result |-> NoResult, returned |-> NoResult,
     calls |-> <<>>, file_exists |-> TRUE, unlinks |-> 0, cleanups |-> 0,
     unlink_failed |-> FALSE]

RecIdle ==
    [pc |-> "idle", idx |-> 1, best_result |-> NoResult, returned |-> NoResult,
     calls |-> <<>>, file_exists |-> FALSE, unlinks |-> 0, cleanups |-> 0,
     unlink_failed |-> FALSE]

\* calls with the call of provider name, at position r.idx of the order, added.
Called(r, name, outcome) ==
    Append(r.calls, [pos |-> r.idx, provider |-> name, outcome |-> outcome])

TryProviderNoShortCircuit(r, name, present, avail, outcome, unlink_ok) ==
    IF ~present \/ ~avail
    THEN [r EXCEPT !.idx = @ + 1]
    ELSE LET r1 == [r EXCEPT !.calls = Called(r, name, outcome), !.idx = @ + 1]
             result == ResultOf(name, outcome)
         IN  IF outcome.raised
             THEN r1
             ELSE IF result.success
                  THEN IF \/ r1.best_result = NoResult
                          \/ result.confidence > r1.best_result.confidence
                       THEN [r1 EXCEPT !.best_result = result]
                       ELSE r1
                  ELSE r1

TryProviderRaises(r, name, present, avail, outcome, unlink_ok) ==
    IF ~present \/ ~avail
    THEN [r EXCEPT !.idx = @ + 1]
    ELSE LET r1 == [r EXCEPT !.calls = Called(r, name, outcome), !.idx = @ + 1]
             result == ResultOf(name, outcome)
         IN  IF outcome.raised
             THEN [r1 EXCEPT !.pc = "done"]
             ELSE IF result.success /\ result.confidence >= min_confidence
                  THEN [cleanup_audio_file(r1, unlink_ok) EXCEPT
                          !.returned = result, !.pc = "done"]
                  ELSE IF result.success
                       THEN IF \/ r1.best_result = NoResult
                               \/ result.confidence > r1.best_result.confidence
                            THEN [r1 EXCEPT !.best_result = result]
                            ELSE r1
                       ELSE r1

TryProviderRetries(r, name, present, avail, outcome, unlink_ok) ==
    IF ~present \/ ~avail
    THEN [r EXCEPT !.idx = @ + 1]
    ELSE LET r1 == [r EXCEPT !.calls = Called(r, name, outcome),
                             !.idx = IF outcome.raised THEN @ ELSE @ + 1]
             result == ResultOf(name, outcome)
         IN  IF outcome.raised
             THEN r1
             ELSE IF result.success /\ result.confidence >= min_confidence
                  THEN [cleanup_audio_file(r1, unlink_ok) EXCEPT
                          !.returned = result, !.pc = "done"]
                  ELSE IF result.success
                       THEN IF \/ r1.best_result = NoResult
                               \/ result.confidence > r1.best_result.confidence
                            THEN [r1 EXCEPT !.best_result = result]
                            ELSE r1
                       ELSE r1

TryProviderTiesReplace(r, name, present, avail, outcome, unlink_ok) ==
    IF ~present \/ ~avail
    THEN [r EXCEPT !.idx = @ + 1]
    ELSE LET r1 == [r EXCEPT !.calls = Called(r, name, outcome), !.idx = @ + 1]
             result == ResultOf(name, outcome)
         IN  IF outcome.raised
             THEN r1
             ELSE IF result.success /\ result.confidence >= min_confidence
                  THEN [cleanup_audio_file(r1, unlink_ok) EXCEPT
                          !.returned = result, !.pc = "done"]
                  ELSE IF result.success
                       THEN IF \/ r1.best_result = NoResult
                               \/ result.confidence >= r1.best_result.confidence
                            THEN [r1 EXCEPT !.best_result = result]
                            ELSE r1
                       ELSE r1

TryProviderLastWins(r, name, present, avail, outcome, unlink_ok) ==
    IF ~present \/ ~avail
    THEN [r EXCEPT !.idx = @ + 1]
    ELSE LET r1 == [r EXCEPT !.calls = Called(r, name, outcome), !.idx = @ + 1]
             result == ResultOf(name, outcome)
         IN  IF outcome.raised
             THEN r1
             ELSE IF result.success /\ result.confidence >= min_confidence
                  THEN [cleanup_audio_file(r1, unlink_ok) EXCEPT
                          !.returned = result, !.pc = "done"]
                  ELSE IF result.success
                       THEN [r1 EXCEPT !.best_result = result]
                       ELSE r1

\* One pass of the for loop of recognize_track, for the name at r.idx.
\* present: a provider of that name is in self.providers; avail: its
\* is_available(); outcome: what its recognize does if it is called;
\* unlink_ok: whether os.unlink succeeds if the pass cleans up.
try_provider(r, name, present, avail, outcome, unlink_ok) ==
    IF ~present \/ ~avail
    THEN [r EXCEPT !.idx = @ + 1]
    ELSE LET r1 == [r EXCEPT !.calls = Called(r, name, outcome), !.idx = @ + 1]
             result == ResultOf(name, outcome)
         IN  IF outcome.raised
             THEN r1
             ELSE IF result.success /\ result.confidence >= min_confidence
                  THEN [cleanup_audio_file(r1, unlink_ok) EXCEPT
                          !.returned = result, !.pc = "done"]
                  ELSE IF result.success
                       THEN IF \/ r1.best_result = NoResult
                               \/ result.confidence > r1.best_result.confidence
                            THEN [r1 EXCEPT !.best_result = result]
                            ELSE r1
                       ELSE r1

\* recognize_track after the loop: the file is cleaned up and the best result,
\* or the "none" failure, is returned.
after_loop(r, unlink_ok) ==
    LET r1 == cleanup_audio_file(r, unlink_ok)
    IN  [r1 EXCEPT !.pc = "done",
                   !.returned = IF r.best_result # NoResult THEN r.best_result
                                ELSE NoMatch]

\* MusicRecognizer.__init__ for some recognition configuration.
InitRecognizer ==
    /\ providers \in SUBSET Names
    /\ enabled \in [Names -> BOOLEAN]
    /\ \E configured_order \in SeqsUpTo(OrderNames, MaxOrder) :
         /\ provider_order = get_provider_order(configured_order, providers,
                                                enabled)
         /\ init_config = [order |-> configured_order, available |-> enabled]
    /\ rec = RecIdle

\* A provider's enabled attribute (or its key, or its client) is changed
\* between recognitions.
SetEnabled(name) ==
    /\ rec.pc = "idle"
    /\ name \in providers
    /\ enabled' = [enabled EXCEPT ![name] = ~@]
    /\ UNCHANGED <<providers, provider_order, init_config, rec, segvars,
                   delvars, taskvars>>
    /\ UNCHANGED lifevars

\* recognize_track is called with a spooled audio file.
RecognizeStart ==
    /\ rec.pc = "idle"
    /\ rec' = RecStart
    /\ UNCHANGED <<providers, enabled, provider_order, init_config, segvars,
                   delvars, taskvars>>
    /\ UNCHANGED lifevars

\* One pass of the for loop.
RecognizeTry ==
    /\ rec.pc = "loop"
    /\ rec.idx <= Len(provider_order)
    /\ \E outcome \in Outcomes, unlink_ok \in BOOLEAN :
         LET name == provider_order[rec.idx]
         IN  rec' = try_provider(rec, name, name \in providers,
                                 enabled[name], outcome, unlink_ok)
    /\ UNCHANGED <<providers, enabled, provider_order, init_config, segvars,
                   delvars, taskvars>>
    /\ UNCHANGED lifevars

\* The loop has run out of names.
RecognizeExhausted ==
    /\ rec.pc = "loop"
    /\ rec.idx > Len(provider_order)
    /\ \E unlink_ok \in BOOLEAN : rec' = after_loop(rec, unlink_ok)
    /\ UNCHANGED <<providers, enabled, provider_order, init_config, segvars,
                   delvars, taskvars>>
    /\ UNCHANGED lifevars

\* ------------------------------------------------------ MalojaScrobbler
\* Number of scrobble_now calls explored.
MaxDeliveries == 2

\* The recognition results scrobble_now can be given: a match, and results
\* that differ from it in one field; "" is an empty or missing artist or
\* title (both are falsy).
DeliverResults ==
    LET match == [success |-> TRUE, artist |-> "Artist", title |-> "Title"]
    IN  {match, [match EXCEPT !.success = FALSE],
         [match EXCEPT !.artist = ""], [match EXCEPT !.title = ""]}

\* The timestamp argument: absent, or the time the track was detected.
Timestamps == {None, 1}

\* HTTP status codes the server can answer with.
StatusCodes == {200, 500}

\* Bodies the server can answer with: a JSON object whose status is
\* "success", "ok" or "fail", text that is not JSON, the JSON null, and a
\* non-empty JSON array.
Bodies == {"success", "ok", "fail", "malformed", "null", "list"}

\* What the POST can do: raise (timeout, connection error), answer 200 with
\* any body, or answer another code with a success or a fail body.
Responses ==
    {[raised |-> TRUE, status_code |-> 0, body |-> "none"]}
    \cup {[raised |-> FALSE, status_code |-> c, body |-> b] :
             c \in StatusCodes, b \in {"success", "fail"}}
    \cup {[raised |-> FALSE, status_code |-> 200, body |-> b] : b \in Bodies}

\* MalojaScrobbler.__init__: the maloja section of the configuration.
Configs == [enabled : BOOLEAN, api_url : {"", "http://maloja"}]

InvalidIfUnsuccessful(recognition_result) == ~recognition_result.success

\* The guard on the recognition result at the head of scrobble_now.
invalid_result(recognition_result) ==
    \/ ~recognition_result.success
    \/ recognition_result.artist = ""
    \/ recognition_result.title = ""

AvailableIfEnabled(cfg) == cfg.enabled

is_available(cfg) == cfg.enabled /\ cfg.api_url # ""

\* payload['time'] = int(timestamp or int(time.time())).
payload_time(timestamp, t) ==
    IF timestamp = None \/ timestamp = 0 THEN t ELSE timestamp

\* The 'json' of what _post_scrobble returns: the parsed body, or
\* {'status': 'error', 'desc': text} when the body does not parse.
post_scrobble_json(body) ==
    CASE body \in {"success", "ok", "fail"} -> [kind |-> "dict", status |-> body]
      [] body = "malformed" -> [kind |-> "dict", status |-> "error"]
      [] body = "null" -> [kind |-> "null", status |-> "none"]
      [] OTHER -> [kind |-> "list", status |-> "none"]

\* ScrobbleEntry(artist=..., title=..., timestamp=...).
ScrobbleEntry(recognition_result, timestamp) ==
    [artist |-> recognition_result.artist, title |-> recognition_result.title,
     timestamp |-> timestamp]

\* DatabaseManager.add_to_history: the entry is appended to the history
\* store, or the call raises and nothing is written (db_ok = FALSE).
add_to_history(d, entry, db_ok) ==
    IF db_ok THEN [d EXCEPT !.history = Append(@, entry)] ELSE d

\* DatabaseManager.add_to_scrobble_queue: the entry is appended to the retry
\* queue, or the call raises and nothing is written (db_ok = FALSE).
add_to_scrobble_queue(d, entry, db_ok) ==
    IF db_ok THEN [d EXCEPT !.scrobble_queue = Append(@, entry)] ELSE d

ScrobbleNowErrorOnReject(d, recognition_result, timestamp, cfg, t, net, db_ok, t_exc) ==
    IF invalid_result(recognition_result)
    THEN [d EXCEPT !.status = "error"]
    ELSE IF ~is_available(cfg)
    THEN [d EXCEPT !.status = "disabled"]
    ELSE
    LET payload == [artist |-> recognition_result.artist,
                    title |-> recognition_result.title,
                    time |-> payload_time(timestamp, t)]
        d1 == [d EXCEPT !.posts = Append(@, payload)]
        response == post_scrobble_json(net.body)
    IN  IF net.raised \/ response.kind = "list"
        THEN [add_to_scrobble_queue(d1, ScrobbleEntry(recognition_result, t_exc),
                                    db_ok) EXCEPT !.status = "error"]
        ELSE IF /\ net.status_code = 200
                /\ response.kind = "dict"
                /\ response.status \in {"success", "ok"}
        THEN [add_to_history(d1, ScrobbleEntry(recognition_result, payload.time),
                             db_ok) EXCEPT !.status = "success"]
        ELSE [add_to_scrobble_queue(d1,
                     ScrobbleEntry(recognition_result, payload.time), db_ok)
                 EXCEPT !.status = "error"]

ScrobbleNowQueuesOnHistoryFailure(d, recognition_result, timestamp, cfg, t, net, db_ok, t_exc) ==
    IF invalid_result(recognition_result)
    THEN [d EXCEPT !.status = "error"]
    ELSE IF ~is_available(cfg)
    THEN [d EXCEPT !.status = "disabled"]
    ELSE
    LET payload == [artist |-> recognition_result.artist,
                    title |-> recognition_result.title,
                    time |-> payload_time(timestamp, t)]
        d1 == [d EXCEPT !.posts = Append(@, payload)]
        response == post_scrobble_json(net.body)
    IN  IF net.raised \/ response.kind = "list"
        THEN [add_to_scrobble_queue(d1, ScrobbleEntry(recognition_result, t_exc),
                                    db_ok) EXCEPT !.status = "error"]
        ELSE IF /\ net.status_code = 200
                /\ response.kind = "dict"
                /\ response.status \in {"success", "ok"}
                /\ db_ok
        THEN [add_to_history(d1, ScrobbleEntry(recognition_result, payload.time),
                             db_ok) EXCEPT !.status = "success"]
        ELSE [add_to_scrobble_queue(d1,
                     ScrobbleEntry(recognition_result, payload.time), TRUE)
                 EXCEPT !.status = "queued"]

\* scrobble_now on d, the stores and the POSTs made so far: cfg is the
\* scrobbler's configuration, t the clock at the call, net what the POST
\* does, db_ok whether the database write made by the call succeeds, t_exc
\* the clock when the except clause builds its entry. d.status is the
\* 'status' of the dict returned. A body that is a non-empty JSON array is
\* truthy and has no .get: the test of the response raises and the except
\* clause runs, as it does when the POST raises.
scrobble_now(d, recognition_result, timestamp, cfg, t, net, db_ok, t_exc) ==
    IF invalid_result(recognition_result)
    THEN [d EXCEPT !.status = "error"]
    ELSE IF ~is_available(cfg)
    THEN [d EXCEPT !.status = "disabled"]
    ELSE
    LET payload == [artist |-> recognition_result.artist,
                    title |-> recognition_result.title,
                    time |-> payload_time(timestamp, t)]
        d1 == [d EXCEPT !.posts = Append(@, payload)]
        response == post_scrobble_json(net.body)
    IN  IF net.raised \/ response.kind = "list"
        THEN [add_to_scrobble_queue(d1, ScrobbleEntry(recognition_result, t_exc),
                                    db_ok) EXCEPT !.status = "error"]
        ELSE IF /\ net.status_code = 200
                /\ response.kind = "dict"
                /\ response.status \in {"success", "ok"}
        THEN [add_to_history(d1, ScrobbleEntry(recognition_result, payload.time),
                             db_ok) EXCEPT !.status = "success"]
        ELSE [add_to_scrobble_queue(d1,
                     ScrobbleEntry(recognition_result, payload.time), db_ok)
                 EXCEPT !.status = "queued"]

\* The stores, the POSTs made and the last status as one record, the form
\* scrobble_now works on.
MalojaState ==
    [history |-> history, scrobble_queue |-> scrobble_queue, posts |-> posts,
     status |-> ret.status]

\* No scrobble_now call made yet.
NoCall ==
    [recognition_result |-> [success |-> FALSE, artist |-> "", title |-> ""],
     timestamp |-> None, net |-> [raised |-> FALSE, status_code |-> 0,
                                  body |-> "none"],
     db_ok |-> TRUE, t |-> 0, t_exc |-> 0]

\* The database and the call record of a scrobbler that was never called.
InitStores ==
    /\ history = <<>>
    /\ scrobble_queue = <<>>
    /\ posts = <<>>
    /\ ret = [status |-> "none", calls |-> 0, call |-> NoCall]

\* MalojaScrobbler.__init__ for some maloja configuration.
InitScrobbler ==
    /\ maloja \in Configs
    /\ InitStores

\* --------------------------------------------- VinylRecognitionSystem
\* The tracks a recording can be recognized as.
Tracks == {"a", "b"}

\* What recognize_track can return to on_track_detected: the "none" failure,
\* or a successful result, with a confidence below or above min_confidence.
TaskResults ==
    {[success |-> FALSE, confidence |-> 0, track |-> "none"]}
    \cup {[success |-> TRUE, confidence |-> c, track |-> k] :
             c \in {50, 90}, k \in Tracks}

\* What the call made in one step of on_track_detected can do. raises: the
\* call raises; result: what recognize_track returns; unlink_ok: whether its
\* cleanup removes the audio file; queued: what queue_scrobble returns.
TaskInput(raises, result, unlink_ok, queued) ==
    [raises |-> raises, result |-> result, unlink_ok |-> unlink_ok,
     queued |-> queued]

\* The inputs that matter at each step: the other steps make no call.
TaskInputs(pc) ==
    CASE pc = "recognize" ->
           {TaskInput(TRUE, NoTaskResult, TRUE, TRUE)}
           \cup {TaskInput(FALSE, r, u, TRUE) : r \in TaskResults, u \in BOOLEAN}
      [] pc \in {"is_duplicate", "add_track"} ->
           {TaskInput(b, NoTaskResult, TRUE, TRUE) : b \in BOOLEAN}
      [] pc = "queue_scrobble" ->
           {TaskInput(TRUE, NoTaskResult, TRUE, FALSE)}
           \cup {TaskInput(FALSE, NoTaskResult, TRUE, q) : q \in BOOLEAN}
      [] OTHER -> {TaskInput(FALSE, NoTaskResult, TRUE, TRUE)}

\* What on_track_detected shares with the other threads.
Shared ==
    [stats |-> stats, dup_cache |-> dup_cache, delivered |-> delivered,
     files |-> files]

\* DuplicateDetector.is_duplicate(result).is_duplicate: the track was added
\* to the detector before.
is_duplicate(cache, result) == result.track \in cache

\* DuplicateDetector.add_track(result).
add_track(cache, result) == cache \cup {result.track}

\* The first half of "self.stats[key] += 1": the value is read.
load_stat(th, sh, key, next) ==
    [th |-> [th EXCEPT !.tmp = sh.stats[key], !.pc = next], sh |-> sh]

\* The second half of "self.stats[key] += 1": the value read, plus one, is
\* stored.
store_stat(th, sh, key, next) ==
    [th |-> [th EXCEPT !.pc = next],
     sh |-> [sh EXCEPT !.stats[key] = th.tmp + 1]]

Escaped(th, sh) == [th |-> [th EXCEPT !.pc = "crashed"], sh |-> sh]

\* A call inside the try block raised: control goes to the except clause,
\* which logs the error and counts it.
absorbed(th, sh) ==
    [th |-> [th EXCEPT !.pc = "ld_errors", !.trace = Append(@, "except")],
     sh |-> sh]

DuplicateDelivered(th, sh) ==
    [th |-> [th EXCEPT !.dup = IF is_duplicate(sh.dup_cache, th.result)
                                THEN "duplicate" ELSE "new",
                       !.pc = "add_track"],
     sh |-> sh]

\* is_duplicate has returned: a duplicate is counted and the function
\* returns, another track goes on to add_track.
after_duplicate_check(th, sh) ==
    LET duplicate == is_duplicate(sh.dup_cache, th.result)
    IN  [th |-> [th EXCEPT !.dup = IF duplicate THEN "duplicate" ELSE "new",
                           !.pc = IF duplicate THEN "ld_duplicates"
                                  ELSE "add_track"],
         sh |-> sh]

\* recognize_track has returned: its cleanup has removed the audio file
\* (unless the unlink failed), and a successful result is counted and goes
\* on to the duplicate check.
after_recognition(th, sh, inp) ==
    [th |-> [th EXCEPT !.result = inp.result,
                       !.pc = IF inp.result.success THEN "ld_recognized"
                              ELSE "done"],
     sh |-> [sh EXCEPT !.files = IF inp.unlink_ok
                                  THEN @ \ {th.audio_file.id} ELSE @]]

\* One step of thread i in on_track_detected.
on_track_detected(i, th, sh, inp) ==
    LET called == [th EXCEPT !.trace = Append(@, th.pc)]
    IN
    CASE th.pc = "running" ->
           load_stat(th, sh, "tracks_processed", "st_processed")
      [] th.pc = "st_processed" ->
           store_stat(th, sh, "tracks_processed", "recognize")
      [] th.pc = "recognize" ->
           IF inp.raises THEN absorbed(called, sh)
           ELSE after_recognition(called, sh, inp)
      [] th.pc = "ld_recognized" ->
           load_stat(th, sh, "tracks_recognized", "st_recognized")
      [] th.pc = "st_recognized" ->
           store_stat(th, sh, "tracks_recognized", "is_duplicate")
      [] th.pc = "is_duplicate" ->
           IF inp.raises THEN absorbed(called, sh)
           ELSE after_duplicate_check(called, sh)
      [] th.pc = "ld_duplicates" ->
           load_stat(th, sh, "duplicates_detected", "st_duplicates")
      [] th.pc = "st_duplicates" ->
           store_stat(th, sh, "duplicates_detected", "done")
      [] th.pc = "add_track" ->
           IF inp.raises THEN absorbed(called, sh)
           ELSE [th |-> [called EXCEPT !.pc = "queue_scrobble"],
                 sh |-> [sh EXCEPT !.dup_cache = add_track(@, th.result)]]
      [] th.pc = "queue_scrobble" ->
           LET sh1 == [sh EXCEPT !.delivered =
                          Append(@, [thread |-> i, result |-> th.result,
                                     outcome |-> IF inp.raises THEN "raised"
                                                 ELSE IF inp.queued THEN "queued"
                                                 ELSE "refused"])]
           IN  IF inp.raises THEN absorbed(called, sh1)
               ELSE [th |-> [called EXCEPT !.pc = IF inp.queued
                                                  THEN "ld_scrobbled"
                                                  ELSE "done"],
                     sh |-> sh1]
      [] th.pc = "ld_scrobbled" ->
           load_stat(th, sh, "tracks_scrobbled", "st_scrobbled")
      [] th.pc = "st_scrobbled" ->
           store_stat(th, sh, "tracks_scrobbled", "done")
      [] th.pc = "ld_errors" ->
           load_stat(th, sh, "errors", "st_errors")
      [] th.pc = "st_errors" ->
           store_stat(th, sh, "errors", "done")
      [] OTHER -> [th |-> th, sh |-> sh]

\* What one step logs: the kind of step, what _finish_recording did in it
\* ("Recording too short", "Finished recording", "Failed to save recording",
\* "Error processing recording"),
\* whether the maximum-duration warning was logged, whether "Started
\* recording new track" was logged, and whether a music chunk arrived while a
\* recording was waiting in a silence run.
Logged(kind, fin, forced, started, resumed) ==
    [kind |-> kind, fin |-> fin, forced |-> forced, started |-> started,
     resumed |-> resumed]

Quiet(kind) == Logged(kind, "none", FALSE, FALSE, FALSE)

\* ------------------------------------------------------------ actions
\* AudioProcessor.__init__: no stream, no thread.
InitLifecycle ==
    /\ loops = <<>>
    /\ stream = None
    /\ handles = <<>>
    /\ audio_thread = None
    /\ caller = CallerIdle

InitSegmenter ==
    /\ now = StartTime
    /\ is_running = FALSE
    /\ loop = "not_started"
    /\ is_recording = FALSE
    /\ current_recording = <<>>
    /\ silence_start_time = None
    /\ music_start_time = None
    /\ last_track_end_time = 0
    /\ files = {}
    /\ threads = <<>>
    /\ log = Quiet("init")

\* MusicRecognizer.__init__ with the default recognition configuration:
\* both providers present and available, tried in the order audd, shazam.
InitDefaultRecognizer ==
    /\ providers = Names
    /\ enabled = [name \in Names |-> TRUE]
    /\ provider_order = <<"audd", "shazam">>
    /\ init_config = [order |-> <<"audd", "shazam">>, available |-> enabled]
    /\ rec = RecIdle

\* MalojaScrobbler.__init__ with the defaults of its configuration lookups:
\* enabled False and no api_url.
InitDefaultScrobbler ==
    /\ maloja = [enabled |-> FALSE, api_url |-> ""]
    /\ InitStores

\* VinylRecognitionSystem.__init__: the counters at zero; nothing was added
\* to the duplicate detector or handed to the scrobbler yet.
InitSystem ==
    /\ stats = [tracks_processed |-> 0, tracks_recognized |-> 0,
                tracks_scrobbled |-> 0, duplicates_detected |-> 0,
                errors |-> 0]
    /\ dup_cache = {}
    /\ delivered = <<>>

\* The system as constructed with the default configuration.
Init ==
    /\ InitSegmenter
    /\ InitLifecycle
    /\ InitDefaultRecognizer
    /\ InitDefaultScrobbler
    /\ InitSystem

\* The system as constructed with any recognition configuration.
InitRecognize ==
    /\ InitSegmenter
    /\ InitLifecycle
    /\ InitRecognizer
    /\ InitDefaultScrobbler
    /\ InitSystem

\* The system as constructed with any maloja configuration.
InitDeliver ==
    /\ InitSegmenter
    /\ InitLifecycle
    /\ InitDefaultRecognizer
    /\ InitScrobbler
    /\ InitSystem

\* start_monitoring, and _audio_loop up to its first read (_open_stream).
StartMonitoring ==
    /\ ~is_running
    /\ loop = "not_started"
    /\ is_running' = TRUE
    /\ loop' = "read"
    /\ log' = Quiet("start")
    /\ UNCHANGED <<now, is_recording, current_recording, silence_start_time,
                   music_start_time, last_track_end_time, files, threads>>
    /\ UNCHANGED <<recvars, delvars, taskvars>>
    /\ UNCHANGED lifevars

\* One pass of the while loop of _audio_loop whose read succeeds: the read
\* blocks for one chunk period, then _process_audio_chunk runs under _lock.
\* rms is the level of the chunk read, save_ok whether _save_recording
\* succeeds and start_ok whether the thread starts, if the chunk finalizes.
ProcessChunkWith(rms, save_ok, start_ok) ==
    /\ is_running
    /\ loop = "read"
    /\ now < StartTime + MaxTicks
    /\ LET t == now + 1
             s == process_audio_chunk(SegState, rms, t, save_ok)
             audio_file == [id |-> t, samples |-> s.artifact]
             h == IF s.fin = "spooled"
                  THEN hand_off(threads, audio_file, start_ok)
                  ELSE [threads |-> threads, loop |-> loop, fin |-> s.fin]
         IN  /\ now' = t
             /\ is_recording' = s.is_recording
             /\ current_recording' = s.current_recording
             /\ silence_start_time' = s.silence_start_time
             /\ music_start_time' = s.music_start_time
             /\ last_track_end_time' = s.last_track_end_time
             /\ files' = IF s.fin = "spooled" THEN files \cup {audio_file.id}
                         ELSE files
             /\ threads' = h.threads
             /\ loop' = h.loop
             /\ log' = Logged(IF IsSilent(rms) THEN "silent" ELSE "music",
                             h.fin, s.forced, s.started,
                             /\ ~IsSilent(rms)
                             /\ is_recording
                             /\ silence_start_time # None)
    /\ UNCHANGED <<is_running, recvars, delvars, taskvars>>
    /\ UNCHANGED lifevars

\* A pass with any chunk, and any outcome of the spooling and the start.
ProcessChunk ==
    \E rms \in Levels, save_ok \in BOOLEAN, start_ok \in BOOLEAN :
       ProcessChunkWith(rms, save_ok, start_ok)

\* One pass of the while loop whose read raises: the error is logged and the
\* loop sleeps 0.1 s (about one chunk period) before the next read.
ReadError ==
    /\ is_running
    /\ loop = "read"
    /\ now < StartTime + MaxTicks
    /\ LET s == read_failed(SegState)
       IN  /\ is_recording' = s.is_recording
           /\ current_recording' = s.current_recording
           /\ silence_start_time' = s.silence_start_time
           /\ music_start_time' = s.music_start_time
           /\ last_track_end_time' = s.last_track_end_time
    /\ now' = now + 1
    /\ log' = Quiet("read_error")
    /\ UNCHANGED <<is_running, loop, files, threads, recvars, delvars,
                   taskvars>>
    /\ UNCHANGED lifevars

\* A recognition thread runs on_track_detected to its end; recognize_track
\* removes the audio file before it returns.
TaskRun(i) ==
    /\ threads[i].pc = "running"
    /\ threads' = [threads EXCEPT ![i].pc = "done"]
    /\ files' = files \ {threads[i].audio_file.id}
    /\ loop' = IF loop = "in_callback" THEN "read" ELSE loop
    /\ log' = Quiet("task")
    /\ UNCHANGED <<now, is_running, is_recording, current_recording,
                   silence_start_time, music_start_time, last_track_end_time,
                   recvars, delvars, taskvars>>
    /\ UNCHANGED lifevars

Next ==
    \/ StartMonitoring
    \/ ProcessChunk
    \/ ReadError
    \/ \E i \in DOMAIN threads : TaskRun(i)

Spec == Init /\ [][Next]_vars

NextRecognize ==
    \/ \E name \in Names : SetEnabled(name)
    \/ RecognizeStart
    \/ RecognizeTry
    \/ RecognizeExhausted

\* The recognizer alone: the segmenter stays as constructed.
SpecRecognize == InitRecognize /\ [][NextRecognize]_vars

\* One scrobble_now call, from its entry to its return. The call takes one
\* tick, and the except clause reads the clock before or after that tick.
ScrobbleNow ==
    /\ ret.calls < MaxDeliveries
    /\ \E recognition_result \in DeliverResults, timestamp \in Timestamps,
          net \in Responses, db_ok \in BOOLEAN, t_exc \in {now, now + 1} :
         LET d == scrobble_now(MalojaState, recognition_result, timestamp,
                               maloja, now, net, db_ok, t_exc)
         IN  /\ history' = d.history
             /\ scrobble_queue' = d.scrobble_queue
             /\ posts' = d.posts
             /\ ret' = [status |-> d.status, calls |-> ret.calls + 1,
                        call |-> [recognition_result |-> recognition_result,
                                  timestamp |-> timestamp, net |-> net,
                                  db_ok |-> db_ok, t |-> now, t_exc |-> t_exc]]
             /\ now' = now + 1
    /\ UNCHANGED <<is_running, loop, is_recording, current_recording,
                   silence_start_time, music_start_time, last_track_end_time,
                   files, threads, log, maloja, recvars, taskvars>>
    /\ UNCHANGED lifevars

NextDeliver == ScrobbleNow

\* One step of recognition thread i in on_track_detected.
TaskStep(i) ==
    /\ threads[i].pc \notin {"done", "crashed"}
    /\ \E inp \in TaskInputs(threads[i].pc) :
         LET r == on_track_detected(i, threads[i], Shared, inp)
         IN  /\ threads' = [threads EXCEPT ![i] = r.th]
             /\ stats' = r.sh.stats
             /\ dup_cache' = r.sh.dup_cache
             /\ delivered' = r.sh.delivered
             /\ files' = r.sh.files
    /\ log' = Quiet("task")
    /\ UNCHANGED <<now, is_running, loop, is_recording, current_recording,
                   silence_start_time, music_start_time, last_track_end_time,
                   recvars, delvars>>
    /\ UNCHANGED lifevars

\* The level at tick t of a record whose tracks last recording_duration
\* ticks and are separated by 2 * silence_duration + 1 ticks of quiet groove:
\* the gap finalizes the track before it and is long enough for the next
\* track to start a recording.
Groove(t) ==
    IF (t - StartTime - 1) % (recording_duration + 2 * silence_duration + 1)
          < recording_duration
    THEN 50 ELSE 5

\* A pass of the capture loop while that record plays; the spooling and the
\* thread start succeed.
CaptureChunk == ProcessChunkWith(Groove(now + 1), TRUE, TRUE)

NextTask ==
    \/ StartMonitoring
    \/ CaptureChunk
    \/ \E i \in DOMAIN threads : TaskStep(i)

\* The recognition threads step by step, next to a capture loop that hears
\* a record of short tracks.
SpecTask == Init /\ [][NextTask]_vars

\* The scrobbler alone: the segmenter and the recognizer stay as constructed.
SpecDeliver == InitDeliver /\ [][NextDeliver]_vars

\* ------------------------------------------------------------- claims
\* The step is one processed chunk (not a read error, a thread's step or a
\* stuttering step).
ChunkStep == log'.kind \in {"silent", "music"} /\ now' = now + 1

\* The buffer _finish_recording sees when it runs in this step: a music chunk
\* is appended before the maximum-duration check.
BufAtFinalize ==
    IF log'.kind = "music" THEN Append(current_recording, now')
    ELSE current_recording

\* This step finalized a recording (emitted it, discarded it, or failed to
\* spool it or to start its thread).
Finalized == ChunkStep /\ log'.fin # "none"

\* C1: while recording, a silent chunk whose silence run is still shorter than
\* silence_duration finalizes nothing (the recording flag, the buffer, the
\* threads and the files are unchanged), and a music chunk that follows such a
\* run is appended to the same buffer.
C1_ShortSilenceKeepsRecording ==
    [][ChunkStep =>
          /\ (/\ log'.kind = "silent"
              /\ is_recording
              /\ now' - silence_start_time' < silence_duration)
             => /\ is_recording'
                /\ current_recording' = current_recording
                /\ threads' = threads
                /\ files' = files
                /\ log'.fin = "none"
          /\ log'.resumed
             => /\ is_recording'
                /\ current_recording' = Append(current_recording, now')
                /\ threads' = threads
                /\ log'.fin = "none"]_segvars

\* A recording that went through a silence run and took the next music chunk.
C1_Witness ==
    /\ log.resumed
    /\ is_recording
    /\ Len(current_recording) >= 2
    /\ current_recording[Len(current_recording)] = now

\* The time the recording in progress has lasted when this step's chunk has
\* been taken: the clock minus the arrival time of the recording's first
\* chunk.
RecordingAge == now' - BufAtFinalize[1]

\* C2: a chunk finalizes the recording if and only if the segmenter is
\* recording and either the chunk is silent with silence lasting at least
\* silence_duration, or it is a music chunk with which the recording has
\* lasted max_recording_duration.
C2_FinalizeIffClaim ==
    [][ChunkStep =>
          ((log'.fin # "none") <=>
             /\ is_recording \/ log'.started
             /\ \/ /\ log'.kind = "silent"
                   /\ now' - silence_start_time' >= silence_duration
                \/ /\ log'.kind = "music"
                   /\ RecordingAge >= max_recording_duration)
       ]_segvars

\* C3 as claimed: right after a forced finalize the segmenter is still
\* recording.
C3_StillRecordingClaim ==
    (log.kind = "music" /\ log.forced) => is_recording

\* C3 as amended: within a music run a recording in progress is finalized
\* exactly when now - music_start_time reaches max_recording_duration; that
\* finalize leaves the segmenter not recording with an empty buffer, and the
\* later music chunks of the same run start no recording and are not stored.
C3_ForcedFinalizeEndsRecording ==
    [][(ChunkStep /\ log'.kind = "music") =>
          /\ log'.forced <=>
                /\ is_recording \/ log'.started
                /\ now' - music_start_time' >= max_recording_duration
          /\ log'.forced <=> log'.fin # "none"
          /\ log'.forced => ~is_recording' /\ current_recording' = <<>>
          /\ (~is_recording /\ music_start_time # None)
             => /\ ~is_recording'
                /\ current_recording' = current_recording
                /\ music_start_time' = music_start_time
                /\ threads' = threads
                /\ log'.fin = "none"]_segvars

\* A music chunk of the run that was force-finalized, dropped while the
\* segmenter is not recording.
C3_Witness ==
    /\ log.kind = "music"
    /\ log.fin = "none"
    /\ ~is_recording
    /\ music_start_time # None
    /\ last_track_end_time > music_start_time
    /\ last_track_end_time - music_start_time >= max_recording_duration
    /\ now > last_track_end_time

\* C4: the buffer's duration stays below max_recording_duration plus one
\* chunk in every reachable state.
C4_BufferBoundedClaim ==
    RecordingDuration(current_recording) < max_recording_duration + 1

\* C5: a finalize of a buffer shorter than recording_duration discards it:
\* nothing is spooled and no recognition thread is started.
C5_ShortBufferDiscarded ==
    [][(Finalized /\ RecordingDuration(BufAtFinalize) < recording_duration) =>
          /\ log'.fin = "discarded"
          /\ current_recording' = <<>>
          /\ threads' = threads
          /\ files' = files]_segvars

\* A finalize that has just discarded a short recording.
C5_Witness ==
    /\ log.fin = "discarded"
    /\ ~is_recording
    /\ last_track_end_time = now
    /\ threads = <<>>

\* C6: in a run of silent chunks the recording is finalized on the chunk at
\* which now - silence_start_time first reaches silence_duration and on no
\* other: the finalize ends the recording, silence_start_time keeps the run's
\* first value, and a silent chunk processed while not recording finalizes
\* nothing and starts no thread.
C6_SilenceFinalizesOnce ==
    [][(ChunkStep /\ log'.kind = "silent") =>
          /\ (log'.fin # "none") <=>
                /\ is_recording
                /\ now' - silence_start_time' >= silence_duration
          /\ log'.fin # "none" => ~is_recording'
          /\ silence_start_time # None
             => silence_start_time' = silence_start_time
          /\ ~is_recording
             => /\ ~is_recording'
                /\ threads' = threads
                /\ log'.fin = "none"]_segvars

\* A silent chunk after the one that finalized and emitted the recording, in
\* the same silence run, with still one thread.
C6_Witness ==
    /\ log.kind = "silent"
    /\ log.fin = "none"
    /\ ~is_recording
    /\ Len(threads) = 1
    /\ silence_start_time # None
    /\ last_track_end_time - silence_start_time >= silence_duration
    /\ now > last_track_end_time

\* The thread _finish_recording starts for the buffer it spooled in this step.
NewThread == Thread([id |-> now', samples |-> BufAtFinalize])

\* C7 as claimed: every finalize of a buffer of at least recording_duration
\* spools one artifact and starts one recognition thread for it.
C7_EveryLongBufferHandedOffClaim ==
    [][(Finalized /\ RecordingDuration(BufAtFinalize) >= recording_duration) =>
          /\ log'.fin = "emitted"
          /\ threads' = Append(threads, NewThread)]_segvars

\* C7 as amended: such a finalize either spools the buffer and starts exactly
\* one thread for exactly that artifact, or, when _save_recording fails or
\* the thread cannot be started, drops the buffer and starts nothing; no
\* artifact belongs to two threads.
C7_LongBufferHandedOffUnlessSaveFails ==
    /\ [][(Finalized /\ RecordingDuration(BufAtFinalize) >= recording_duration) =>
            \/ /\ log'.fin = "emitted"
               /\ threads' = Append(threads, NewThread)
               /\ now' \notin files
               /\ files' = files \cup {now'}
            \/ /\ log'.fin = "save_failed"
               /\ threads' = threads
               /\ files' = files
               /\ current_recording' = <<>>
            \/ /\ log'.fin = "start_failed"
               /\ threads' = threads
               /\ current_recording' = <<>>]_segvars
    /\ [](\A i, j \in DOMAIN threads :
            threads[i].audio_file.id = threads[j].audio_file.id => i = j)

\* A finalize that has just handed a spooled buffer to a new thread.
C7_Witness ==
    /\ log.fin = "emitted"
    /\ Len(threads) >= 1
    /\ threads[Len(threads)].pc = "running"
    /\ threads[Len(threads)].audio_file.id = now
    /\ RecordingDuration(threads[Len(threads)].audio_file.samples)
          >= recording_duration
    /\ now \in files

\* C8: while recognition threads are running the capture loop is at its read
\* and can process the next chunk.
C8_HandOffNeverWaits ==
    (\E i \in DOMAIN threads : threads[i].pc = "running")
       => /\ loop = "read"
          /\ now < StartTime + MaxTicks => ENABLED ProcessChunk

\* A second track was finalized and handed off while the first thread was
\* still running.
C8_Witness ==
    /\ Len(threads) >= 2
    /\ \A i \in DOMAIN threads : threads[i].pc = "running"
    /\ log.fin = "emitted"
    /\ loop = "read"

\* A call whose result has success = true and confidence >= min_confidence.
Qualifies(c) ==
    /\ ~c.outcome.raised
    /\ c.outcome.success
    /\ c.outcome.confidence >= min_confidence

\* A call whose result has success = true.
Succeeded(c) == ~c.outcome.raised /\ c.outcome.success

\* The positions of provider_order whose provider was called.
CalledPositions == {rec.calls[i].pos : i \in DOMAIN rec.calls}

\* C9: when recognize_track has returned, the providers were called in the
\* configured order, skipping only unavailable ones, and a call whose result
\* is a success with confidence >= min_confidence is the last call made and
\* its result is the one returned.
C9_FirstQualifyingProviderWins ==
    rec.pc = "done" =>
       /\ \A i \in DOMAIN rec.calls :
             /\ rec.calls[i].provider = provider_order[rec.calls[i].pos]
             /\ i > 1 => rec.calls[i - 1].pos < rec.calls[i].pos
             /\ Qualifies(rec.calls[i])
                => /\ i = Len(rec.calls)
                   /\ rec.returned = ResultOf(rec.calls[i].provider,
                                              rec.calls[i].outcome)
       /\ \A p \in DOMAIN provider_order :
             (\A i \in DOMAIN rec.calls :
                 Qualifies(rec.calls[i]) => p < rec.calls[i].pos)
             => \/ p \in CalledPositions
                \/ ~enabled[provider_order[p]]

\* The second provider called met the threshold with the lowest accepted
\* confidence and was returned, and an available provider after it was never
\* called.
C9_Witness ==
    /\ rec.pc = "done"
    /\ Len(rec.calls) = 2
    /\ Succeeded(rec.calls[1])
    /\ ~Qualifies(rec.calls[1])
    /\ Qualifies(rec.calls[2])
    /\ rec.returned = ResultOf(rec.calls[2].provider, rec.calls[2].outcome)
    /\ rec.returned.confidence = min_confidence
    /\ \E p \in DOMAIN provider_order :
          /\ p > rec.calls[2].pos
          /\ enabled[provider_order[p]]

\* C10: when recognize_track has returned and no call's result was a success
\* with confidence >= min_confidence, the result returned is that of a
\* successful call of the highest confidence among the successful calls, or,
\* when no call succeeded, the failure with confidence 0 and provider "none".
C10_BestBelowThresholdOrNone ==
    (rec.pc = "done" /\ \A i \in DOMAIN rec.calls : ~Qualifies(rec.calls[i])) =>
       LET S == {i \in DOMAIN rec.calls : Succeeded(rec.calls[i])}
       IN  IF S = {}
           THEN rec.returned = NoMatch
           ELSE \E i \in S :
                   /\ rec.returned = ResultOf(rec.calls[i].provider,
                                              rec.calls[i].outcome)
                   /\ \A j \in S : rec.calls[j].outcome.confidence
                                      <= rec.calls[i].outcome.confidence

\* Two providers matched below the threshold, the first with the higher
\* confidence, and the first one's result was returned.
C10_Witness ==
    /\ rec.pc = "done"
    /\ Len(rec.calls) >= 2
    /\ Succeeded(rec.calls[1])
    /\ Succeeded(rec.calls[2])
    /\ rec.calls[1].provider # rec.calls[2].provider
    /\ rec.calls[2].outcome.confidence < rec.calls[1].outcome.confidence
    /\ rec.calls[1].outcome.confidence < min_confidence
    /\ \A i \in DOMAIN rec.calls : ~Qualifies(rec.calls[i])
    /\ rec.returned = ResultOf(rec.calls[1].provider, rec.calls[1].outcome)

\* C11 as stated: when recognize_track has returned, the audio file was
\* unlinked exactly once and is no longer on disk.
C11_DeletedExactlyOnceClaim ==
    rec.pc = "done" => rec.unlinks = 1 /\ ~rec.file_exists

\* C11: when recognize_track has returned, on whichever path,
\* _cleanup_audio_file ran exactly once in the call; the audio file was
\* unlinked exactly once and is gone, unless os.unlink raised, and then it
\* was unlinked zero times and is still on disk. It is never unlinked twice.
C11_CleanedUpOnceUnlessUnlinkFails ==
    /\ rec.unlinks <= 1
    /\ rec.pc = "loop" => rec.cleanups = 0 /\ rec.file_exists
    /\ rec.pc = "done" =>
          /\ rec.cleanups = 1
          /\ IF rec.unlink_failed
             THEN rec.unlinks = 0 /\ rec.file_exists
             ELSE rec.unlinks = 1 /\ ~rec.file_exists

\* The only provider called raised, the call returned the "none" failure and
\* the file was unlinked once.
C11_Witness ==
    /\ rec.pc = "done"
    /\ Len(rec.calls) = 1
    /\ rec.calls[1].outcome.raised
    /\ rec.returned = NoMatch
    /\ rec.cleanups = 1
    /\ rec.unlinks = 1
    /\ ~rec.file_exists

\* The step is a pass of the for loop in which the provider's recognize
\* raised.
ProviderRaised ==
    /\ rec.pc = "loop"
    /\ Len(rec'.calls) = Len(rec.calls) + 1
    /\ rec'.calls[Len(rec'.calls)].outcome.raised

\* C12: a pass in which the provider raises leaves best_result as it was and
\* leaves the call in the loop at the next name of the order, and a call that
\* has returned has returned a RecognitionResult (the best result or the
\* "none" failure).
C12_RaiseIsAFailedAttempt ==
    /\ [][ProviderRaised =>
            /\ rec'.pc = "loop"
            /\ rec'.idx = rec.idx + 1
            /\ rec'.best_result = rec.best_result
            /\ rec'.returned = rec.returned]_vars
    /\ [](rec.pc = "done" => rec.returned # NoResult)

\* The first provider matched below the threshold, the second raised, and the
\* first one's result was returned.
C12_Witness ==
    /\ rec.pc = "done"
    /\ Len(rec.calls) = 2
    /\ Succeeded(rec.calls[1])
    /\ rec.calls[2].outcome.raised
    /\ rec.returned = ResultOf(rec.calls[1].provider, rec.calls[1].outcome)
    /\ rec.returned.success

\* The step is one scrobble_now call; ret' holds its arguments, what the
\* network and the database did in it, and the status it returned.
DeliverStep == ret'.calls = ret.calls + 1

\* The result the call was given has success = true and a non-empty artist
\* and title.
ValidResult(call) ==
    /\ call.recognition_result.success
    /\ call.recognition_result.artist # ""
    /\ call.recognition_result.title # ""

\* The backend is enabled and has an endpoint configured.
BackendEnabled == maloja.enabled /\ maloja.api_url # ""

\* The POST of the call was answered with HTTP 200 and a JSON object whose
\* status is success or ok.
Accepted(call) ==
    /\ ~call.net.raised
    /\ call.net.status_code = 200
    /\ call.net.body \in {"success", "ok"}

\* The delivery attempt raised: the POST did (timeout, connection error), or
\* the test of the response did (a JSON body that is a non-empty array).
AttemptRaised(call) == call.net.raised \/ call.net.body = "list"

\* C13 as stated: a scrobble_now call with a valid result on an enabled
\* backend writes one history record and no queue entry when the POST is
\* accepted, and one queue entry and no history record otherwise.
C13_ExactlyOneRecordClaim ==
    [][(DeliverStep /\ ValidResult(ret'.call) /\ BackendEnabled) =>
          IF Accepted(ret'.call)
          THEN /\ Len(history') = Len(history) + 1
               /\ scrobble_queue' = scrobble_queue
          ELSE /\ Len(scrobble_queue') = Len(scrobble_queue) + 1
               /\ history' = history]_vars

\* C14 as stated: a call with a valid result on an enabled backend whose
\* POST was not accepted has returned queued, and a call that returned error
\* was given an invalid result.
C14_QueuedForEveryFailureClaim ==
    ret.calls > 0 =>
       /\ (ValidResult(ret.call) /\ BackendEnabled /\ ~Accepted(ret.call))
             => ret.status = "queued"
       /\ ret.status = "error" => ~ValidResult(ret.call)

\* C14: a call with a valid result on an enabled backend has returned
\* success when the POST was accepted, error when the attempt raised, and
\* queued for every other answer; a call that returned error was given an
\* invalid result or its attempt raised.
C14_QueuedUnlessAttemptRaised ==
    ret.calls > 0 =>
       /\ (ValidResult(ret.call) /\ BackendEnabled) =>
             ret.status = IF Accepted(ret.call) THEN "success"
                          ELSE IF AttemptRaised(ret.call) THEN "error"
                          ELSE "queued"
       /\ ret.status = "error" =>
             \/ ~ValidResult(ret.call)
             \/ BackendEnabled /\ AttemptRaised(ret.call)

\* Two calls with a valid result on an enabled backend: the POST of one was
\* answered with HTTP 500 and it returned queued, the POST of the other
\* raised and it returned error, and both entries are in the retry queue.
C14_Witness ==
    /\ ret.calls = 2
    /\ ValidResult(ret.call)
    /\ BackendEnabled
    /\ ret.call.net.raised
    /\ ret.status = "error"
    /\ Len(scrobble_queue) = 2
    /\ Len(posts) = 2

\* C15 as stated: a call with a valid result on an enabled backend that
\* returned another status than success has added its entry to the retry
\* queue.
C15_FailedDeliveryQueuedClaim ==
    [][(/\ DeliverStep
        /\ ValidResult(ret'.call)
        /\ BackendEnabled
        /\ ret'.status # "success") =>
          /\ Len(scrobble_queue') = Len(scrobble_queue) + 1
          /\ LET e == scrobble_queue'[Len(scrobble_queue')]
             IN  /\ e.artist = ret'.call.recognition_result.artist
                 /\ e.title = ret'.call.recognition_result.title]_vars

\* C16: a scrobble_now call given a result with success = false, or an empty
\* or missing artist or title, returns error, POSTs nothing and writes
\* neither to the history nor to the retry queue, whatever the configuration.
C16_InvalidResultIsError ==
    [][(DeliverStep /\ ~ValidResult(ret'.call)) =>
          /\ ret'.status = "error"
          /\ UNCHANGED <<posts, history, scrobble_queue>>]_vars

\* On an enabled backend with a server that would accept, a successful
\* result with an artist and no title was answered with error and nothing
\* was POSTed or written.
C16_Witness ==
    /\ ret.calls = 1
    /\ BackendEnabled
    /\ ret.call.recognition_result.success
    /\ ret.call.recognition_result.artist # ""
    /\ ret.call.recognition_result.title = ""
    /\ Accepted(ret.call)
    /\ ret.status = "error"
    /\ posts = <<>>
    /\ history = <<>>
    /\ scrobble_queue = <<>>

\* C17: a scrobble_now call given a valid result while the backend is
\* disabled or has no endpoint returns disabled, POSTs nothing and writes
\* neither to the history nor to the retry queue.
C17_DisabledChangesNothing ==
    [][(DeliverStep /\ ValidResult(ret'.call) /\ ~BackendEnabled) =>
          /\ ret'.status = "disabled"
          /\ UNCHANGED <<posts, history, scrobble_queue>>]_vars

\* The backend is enabled but has no endpoint; a valid result was answered
\* with disabled and nothing was POSTed or written.
C17_Witness ==
    /\ ret.calls = 1
    /\ maloja.enabled
    /\ maloja.api_url = ""
    /\ ValidResult(ret.call)
    /\ ret.status = "disabled"
    /\ posts = <<>>
    /\ history = <<>>
    /\ scrobble_queue = <<>>

\* The calls on_track_detected makes, in the order of the claim.
TaskOrder == <<"recognize", "is_duplicate", "add_track", "queue_scrobble">>

\* The collaborator calls thread th has made so far.
CallsOf(th) == SelectSeq(th.trace, LAMBDA c : c # "except")

\* The queue_scrobble calls made by thread i.
DeliveriesOf(i) == {k \in DOMAIN delivered : delivered[k].thread = i}

\* C18: in every recognition thread the calls made so far are recognize,
\* is_duplicate, add_track, queue_scrobble in this order; is_duplicate is
\* called only with a result whose success is true, add_track and
\* queue_scrobble only after is_duplicate answered not-duplicate, and
\* queue_scrobble at most once, with the thread's result. A thread whose
\* recognition failed or whose check answered duplicate has called neither
\* add_track nor queue_scrobble, and every track in the duplicate cache is
\* the result of a thread that called add_track.
C18_RecognizeCheckDeliver ==
    /\ \A i \in DOMAIN threads :
          LET th == threads[i]
              calls == CallsOf(th)
          IN  /\ Len(calls) <= Len(TaskOrder)
              /\ \A k \in DOMAIN calls : calls[k] = TaskOrder[k]
              /\ Len(calls) >= 2 => th.result.success
              /\ Len(calls) >= 3 => th.result.success /\ th.dup = "new"
              /\ Cardinality(DeliveriesOf(i)) = IF Len(calls) = 4 THEN 1 ELSE 0
              /\ \A k \in DeliveriesOf(i) : delivered[k].result = th.result
              /\ (th.result # NoTaskResult /\ ~th.result.success) =>
                    Len(calls) = 1
              /\ th.dup = "duplicate" => Len(calls) = 2
    /\ \A k \in DOMAIN delivered : delivered[k].thread \in DOMAIN threads
    /\ \A track \in dup_cache :
          \E i \in DOMAIN threads :
             /\ Len(CallsOf(threads[i])) >= 3
             /\ threads[i].result.track = track

\* Of two finished threads, one recognized a track, was answered
\* not-duplicate, added it to the cache and delivered it; the other
\* recognized the same track, was answered duplicate and stopped there.
C18_Witness ==
    /\ Len(threads) = 2
    /\ \A i \in DOMAIN threads : threads[i].pc = "done"
    /\ \E i, j \in DOMAIN threads :
          /\ threads[i].trace = TaskOrder
          /\ threads[j].trace = <<"recognize", "is_duplicate">>
          /\ threads[j].dup = "duplicate"
          /\ threads[j].result.track = threads[i].result.track
          /\ DeliveriesOf(j) = {}
    /\ Len(delivered) = 1
    /\ Cardinality(dup_cache) = 1
    /\ stats.duplicates_detected = 1

\* A call made by thread th raised.
Raised(th) == \E k \in DOMAIN th.trace : th.trace[k] = "except"

\* C19: no exception leaves on_track_detected (no thread ends crashed); a
\* thread in which a call raised and that has finished has counted the
\* error; a step of a thread changes neither is_running, nor where the
\* capture loop is, nor any segmenter field; while monitoring runs the
\* capture loop is at its read and its next pass can be taken; and every
\* unfinished thread can take its next step, whatever happened in the others.
C19_TaskFailureAbsorbed ==
    /\ [](\A i \in DOMAIN threads :
             /\ threads[i].pc # "crashed"
             /\ (threads[i].pc # "done") => ENABLED TaskStep(i)
             /\ (Raised(threads[i]) /\ threads[i].pc = "done")
                   => stats.errors >= 1)
    /\ [](is_running => loop = "read")
    /\ []((is_running /\ now < StartTime + MaxTicks) => ENABLED CaptureChunk)
    /\ [][log'.kind = "task" =>
            UNCHANGED <<is_running, loop, is_recording, current_recording,
                        silence_start_time, music_start_time,
                        last_track_end_time, now>>]_vars

\* The first thread failed in queue_scrobble and counted the error; the
\* capture loop is still at its read, and the thread of a later track has
\* been recognized and delivered.
C19_Witness ==
    /\ Len(threads) = 2
    /\ threads[1].pc = "done"
    /\ threads[1].trace = TaskOrder \o <<"except">>
    /\ threads[2].pc = "done"
    /\ threads[2].trace = TaskOrder
    /\ stats.errors = 1
    /\ Len(delivered) = 2
    /\ delivered[1].thread = 1
    /\ delivered[1].outcome = "raised"
    /\ delivered[2].outcome = "queued"
    /\ is_running
    /\ loop = "read"

\* C20: a pass of the capture loop whose read raises changes none of
\* is_recording, current_recording, silence_start_time, music_start_time
\* and last_track_end_time, spools no file and starts no thread, and leaves
\* the loop running and at its read; after it the next pass can be taken.
C20_ReadErrorChangesNothing ==
    /\ [][log'.kind = "read_error" =>
            /\ UNCHANGED <<is_recording, current_recording, silence_start_time,
                           music_start_time, last_track_end_time, files,
                           threads>>
            /\ log'.fin = "none"
            /\ is_running'
            /\ loop' = "read"]_vars
    /\ []((log.kind = "read_error" /\ now < StartTime + MaxTicks)
            => ENABLED ProcessChunk /\ ENABLED ReadError)

\* Reads failed while a recording was waiting in a silence run, for as long
\* as silence_duration, and the recording, its buffer and the silence timer
\* are still there.
C20_Witness ==
    /\ log.kind = "read_error"
    /\ is_recording
    /\ Len(current_recording) >= 2
    /\ silence_start_time # None
    /\ now - silence_start_time >= silence_duration
    /\ threads = <<>>
    /\ is_running
    /\ loop = "read"

\* C28: a pass whose provider returns a success below min_confidence
\* replaces best_result only when its confidence is strictly higher than
\* that of best_result (or there is none yet); and when recognize_track has
\* returned without a call meeting the threshold, the result returned is
\* that of the earliest call among the successful calls of the highest
\* confidence.
C28_TieKeepsEarlierProvider ==
    /\ [][(/\ rec.pc = "loop"
           /\ Len(rec'.calls) = Len(rec.calls) + 1
           /\ Succeeded(rec'.calls[Len(rec'.calls)])
           /\ ~Qualifies(rec'.calls[Len(rec'.calls)])) =>
            LET c == rec'.calls[Len(rec'.calls)]
            IN  rec'.best_result =
                   IF \/ rec.best_result = NoResult
                      \/ c.outcome.confidence > rec.best_result.confidence
                   THEN ResultOf(c.provider, c.outcome)
                   ELSE rec.best_result]_vars
    /\ []((rec.pc = "done"
            /\ \A i \in DOMAIN rec.calls : ~Qualifies(rec.calls[i])) =>
           \A i \in DOMAIN rec.calls :
              (/\ Succeeded(rec.calls[i])
               /\ \A j \in DOMAIN rec.calls :
                     Succeeded(rec.calls[j]) =>
                        /\ rec.calls[j].outcome.confidence
                              <= rec.calls[i].outcome.confidence
                        /\ (j < i) => rec.calls[j].outcome.confidence
                                         < rec.calls[i].outcome.confidence)
              => rec.returned = ResultOf(rec.calls[i].provider,
                                         rec.calls[i].outcome))

\* Two providers matched with the same confidence below the threshold, and
\* the result of the one earlier in the order was returned.
C28_Witness ==
    /\ rec.pc = "done"
    /\ Len(rec.calls) = 2
    /\ Succeeded(rec.calls[1])
    /\ Succeeded(rec.calls[2])
    /\ rec.calls[1].outcome.confidence = rec.calls[2].outcome.confidence
    /\ rec.calls[1].outcome.confidence < min_confidence
    /\ rec.calls[1].pos < rec.calls[2].pos
    /\ rec.calls[1].provider # rec.calls[2].provider
    /\ rec.returned = ResultOf(rec.calls[1].provider, rec.calls[1].outcome)

\* The names in the configured order.
ConfiguredNames == {init_config.order[k] : k \in DOMAIN init_config.order}

\* C29: a pass of recognize_track calls a provider's recognize only if the
\* provider's name is in the configured order, the provider exists, was
\* available when __init__ ran and is available now; so no call is ever
\* made to a provider whose name is not in the configured order.
C29_OnlyConfiguredAvailableCalled ==
    /\ [][(rec.pc = "loop" /\ Len(rec'.calls) = Len(rec.calls) + 1) =>
            LET name == rec'.calls[Len(rec'.calls)].provider
            IN  /\ name \in ConfiguredNames
                /\ name \in providers
                /\ init_config.available[name]
                /\ enabled[name]]_vars
    /\ [](\A i \in DOMAIN rec.calls : rec.calls[i].provider \in ConfiguredNames)

\* recognize_track has returned after calling the one provider in the
\* configured order, while another provider, always available but not in the
\* order, was never called.
C29_Witness ==
    /\ rec.pc = "done"
    /\ Len(rec.calls) = 1
    /\ ~Qualifies(rec.calls[1])
    /\ \E name \in providers \ ConfiguredNames :
          /\ init_config.available[name]
          /\ enabled[name]
          /\ \A i \in DOMAIN rec.calls : rec.calls[i].provider # name

\* ---------------------------------------------- monitoring start and stop
SegUnchanged ==
    UNCHANGED <<is_recording, current_recording, silence_start_time,
                music_start_time, last_track_end_time, files, threads, loop>>

\* A call of start_monitoring.
StartCall ==
    /\ caller.pc = "idle"
    /\ is_running \/ Len(loops) < MaxStarts
    /\ LET r == start_monitoring(is_running, loops, audio_thread)
       IN  /\ is_running' = r.is_running
           /\ loops' = r.loops
           /\ audio_thread' = r.audio_thread
           /\ caller' = [caller EXCEPT !.last = r.last]
    /\ log' = Quiet("start")
    /\ SegUnchanged
    /\ UNCHANGED <<now, stream, handles, recvars, delvars, taskvars>>

\* stop_monitoring up to its join: is_running is cleared; with a live
\* _audio_thread the caller waits in join(timeout=5.0), otherwise it goes
\* on to _close_stream and returns.
StopBegin ==
    /\ caller.pc = "idle"
    /\ is_running' = FALSE
    /\ IF audio_thread # None /\ Alive(loops[audio_thread])
       THEN /\ caller' = [caller EXCEPT !.pc = "joining"]
            /\ UNCHANGED <<stream, handles>>
       ELSE \E close_ok \in BOOLEAN :
              LET d == close_stream(Device, close_ok)
              IN  /\ stream' = d.stream
                  /\ handles' = d.handles
                  /\ caller' = [pc |-> "idle", last |-> "stopped",
                                timed_out |-> FALSE]
    /\ log' = Quiet("stop")
    /\ SegUnchanged
    /\ UNCHANGED <<now, loops, audio_thread, recvars, delvars, taskvars>>

\* The rest of stop_monitoring: join returns because the thread has ended,
\* or because five seconds have passed while the thread is blocked in
\* stream.read; then _close_stream.
StopFinish ==
    /\ caller.pc = "joining"
    /\ loops[audio_thread].pc \in {"dead", "read"}
    /\ \E close_ok \in BOOLEAN :
         LET d == close_stream(Device, close_ok)
         IN  /\ stream' = d.stream
             /\ handles' = d.handles
             /\ caller' = [pc |-> "idle", last |-> "stopped",
                           timed_out |-> Alive(loops[audio_thread])]
    /\ log' = Quiet("stop")
    /\ SegUnchanged
    /\ UNCHANGED <<now, is_running, loops, audio_thread, recvars, delvars,
                   taskvars>>

\* _audio_loop up to its while loop: _open_stream. When audio.open raises,
\* _open_stream logs and re-raises, the except clause of _audio_loop logs
\* "Audio loop error", the finally clause runs _close_stream and the thread
\* ends.
LoopOpen(i) ==
    /\ loops[i].pc = "open"
    /\ \E open_ok \in BOOLEAN, close_ok \in BOOLEAN :
         IF open_ok
         THEN LET d == open_stream(Device)
              IN  /\ stream' = d.stream
                  /\ handles' = d.handles
                  /\ loops' = [loops EXCEPT ![i].pc = "test"]
         ELSE LET d == close_stream(Device, close_ok)
              IN  /\ stream' = d.stream
                  /\ handles' = d.handles
                  /\ loops' = [loops EXCEPT ![i].pc = "dead"]
    /\ log' = Quiet("open")
    /\ SegUnchanged
    /\ UNCHANGED <<now, is_running, audio_thread, caller, recvars, delvars,
                   taskvars>>

\* The head of one pass of the while loop: the loop ends (finally:
\* _close_stream) when is_running is false; it goes into stream.read when
\* the stream is set and active; otherwise it sleeps 0.1 s.
LoopTest(i) ==
    /\ loops[i].pc = "test"
    /\ LET w == while_test(is_running, Device)
       IN  \/ /\ w = "exit"
              /\ \E close_ok \in BOOLEAN :
                   LET d == close_stream(Device, close_ok)
                   IN  /\ stream' = d.stream
                       /\ handles' = d.handles
                       /\ loops' = [loops EXCEPT ![i].pc = "dead"]
              /\ now' = now
           \/ /\ w = "read"
              /\ loops' = [loops EXCEPT ![i].pc = "read",
                                        ![i].handle = stream]
              /\ UNCHANGED <<now, stream, handles>>
           \/ /\ w = "sleep"
              /\ now < StartTime + MaxLifeTicks
              /\ now' = now + 1
              /\ UNCHANGED <<loops, stream, handles>>
    /\ log' = Quiet("test")
    /\ SegUnchanged
    /\ UNCHANGED <<is_running, audio_thread, caller, recvars, delvars,
                   taskvars>>

\* stream.read returns or raises, and the rest of the pass. With data the
\* chunk goes through _process_audio_chunk under _lock (the record that
\* plays is the one of Groove; spooling and thread start succeed); when the
\* read raises, the error is logged and the loop sleeps. A stream that is
\* open delivers its chunk; a read on a stream that stop_monitoring has
\* closed in the meantime raises or returns what was buffered.
LoopRead(i) ==
    /\ loops[i].pc = "read"
    /\ now < StartTime + MaxLifeTicks
    /\ now' = now + 1
    /\ \E read_ok \in {TRUE, handles[loops[i].handle] = "open"} :
         IF read_ok
         THEN LET t == now + 1
                  rms == Groove(t)
                  s == process_audio_chunk(SegState, rms, t, TRUE)
                  audio_file == [id |-> t, samples |-> s.artifact]
                  h == IF s.fin = "spooled"
                       THEN hand_off(threads, audio_file, TRUE)
                       ELSE [threads |-> threads, loop |-> loop, fin |-> s.fin]
              IN  /\ is_recording' = s.is_recording
                  /\ current_recording' = s.current_recording
                  /\ silence_start_time' = s.silence_start_time
                  /\ music_start_time' = s.music_start_time
                  /\ last_track_end_time' = s.last_track_end_time
                  /\ files' = IF s.fin = "spooled"
                              THEN files \cup {audio_file.id} ELSE files
                  /\ threads' = h.threads
                  /\ log' = Logged(IF IsSilent(rms) THEN "silent" ELSE "music",
                                   h.fin, s.forced, s.started,
                                   /\ ~IsSilent(rms)
                                   /\ is_recording
                                   /\ silence_start_time # None)
                  /\ loops' = [loops EXCEPT
                                 ![i].pc = "test",
                                 ![i].handle = None,
                                 ![i].since_stop =
                                     IF is_running THEN @ ELSE @ + 1]
         ELSE LET s == read_failed(SegState)
              IN  /\ is_recording' = s.is_recording
                  /\ current_recording' = s.current_recording
                  /\ silence_start_time' = s.silence_start_time
                  /\ music_start_time' = s.music_start_time
                  /\ last_track_end_time' = s.last_track_end_time
                  /\ log' = Quiet("read_error")
                  /\ loops' = [loops EXCEPT ![i].pc = "test",
                                            ![i].handle = None]
                  /\ UNCHANGED <<files, threads>>
    /\ UNCHANGED <<is_running, loop, stream, handles, audio_thread, caller,
                   recvars, delvars, taskvars>>

NextLifecycle ==
    \/ StartCall
    \/ StopBegin
    \/ StopFinish
    \/ \E i \in DOMAIN loops : LoopOpen(i)
    \/ \E i \in DOMAIN loops : LoopTest(i)
    \/ \E i \in DOMAIN loops : LoopRead(i)
    \/ \E i \in DOMAIN threads : TaskRun(i)

\* Monitoring started and stopped by one caller, with the capture threads
\* and the recognition threads this starts.
SpecLifecycle == Init /\ [][NextLifecycle]_vars

\* C26: the segmenter has one buffer, and _start_recording touches it only
\* when no recording is in progress: a step begins a recording only from
\* the not-recording state, and a music chunk taken while recording (after a
\* silence run in particular, where _handle_music calls _start_recording
\* again) keeps every sample of the buffer and adds its own.
C26_StartIsNoOpWhileRecording ==
    [][ChunkStep =>
          /\ log'.started => ~is_recording
          /\ (log'.kind = "music" /\ is_recording) =>
                /\ ~log'.started
                /\ BufAtFinalize = Append(current_recording, now')
                /\ log'.fin = "none" => current_recording' = BufAtFinalize
          /\ log'.resumed =>
                /\ now' - last_track_end_time > silence_duration
                /\ is_recording'
                /\ SubSeq(current_recording', 1, Len(current_recording))
                      = current_recording]_vars

\* A recording in progress that took a music chunk after a silence run, when
\* the time since the last finalize made _handle_music call _start_recording.
C26_Witness ==
    /\ log.resumed
    /\ ~log.started
    /\ is_recording
    /\ now - last_track_end_time > silence_duration
    /\ Len(current_recording) >= 3
    /\ current_recording[Len(current_recording)] = now
    /\ current_recording[Len(current_recording) - 1] < now - 1

\* C27 as stated: a silent chunk leaves the buffer unchanged.
C27_SilentLeavesBufferClaim ==
    [][(ChunkStep /\ log'.kind = "silent") =>
          current_recording' = current_recording]_vars

\* C27: the buffer gains samples only by the append in _handle_music, made
\* when the segmenter is recording once _handle_music has decided on the
\* start. A silent chunk adds nothing: it leaves the buffer as it is, or
\* finalizes the recording, which empties it. A music chunk after which the
\* segmenter is not recording and that finalized nothing leaves the buffer
\* unchanged. So the buffer holds arrival times of music chunks only, in
\* order, and the silence inside a recording is not counted.
C27_OnlyMusicWhileRecordingAppends ==
    /\ [][ChunkStep =>
            /\ log'.kind = "silent" =>
                  \/ current_recording' = current_recording
                  \/ log'.fin # "none" /\ current_recording' = <<>>
            /\ (log'.kind = "music" /\ ~is_recording /\ ~log'.started) =>
                  current_recording' = current_recording
            /\ current_recording' \notin {current_recording, <<>>} =>
                  /\ log'.kind = "music"
                  /\ is_recording \/ log'.started
                  /\ current_recording' =
                        Append(IF log'.started THEN <<>> ELSE current_recording,
                               now')]_vars
    /\ [](\A k \in 1..(Len(current_recording) - 1) :
             current_recording[k] < current_recording[k + 1])

\* A recording in progress that has been through silence: its buffer holds
\* fewer chunks than have arrived since its first one, and the last chunk
\* processed was silent.
C27_Witness ==
    /\ is_recording
    /\ log.kind = "silent"
    /\ Len(current_recording) >= 2
    /\ Len(current_recording) < now - current_recording[1] + 1

\* C24: a finalize that spools an artifact comes at least
\* recording_duration + silence_duration after the finalize before it, so the
\* recognition threads were created at least that far apart.
C24_HandOffsSpacedApart ==
    /\ [][(Finalized /\ log'.fin \in {"emitted", "start_failed"}) =>
            now' - last_track_end_time >=
               recording_duration + silence_duration]_vars
    /\ [](\A i \in 1..(Len(threads) - 1) :
             threads[i + 1].audio_file.id - threads[i].audio_file.id >=
                recording_duration + silence_duration)

\* Two recognition threads have been started, the second one right at the
\* last chunk.
C24_Witness ==
    /\ Len(threads) = 2
    /\ log.fin = "emitted"
    /\ threads[2].audio_file.id = now
    /\ threads[1].audio_file.id < now

\* C23: recognition threads are created one per step of the capture loop,
\* each after the ones before it and for a later recording; a step of a
\* thread creates none; and no unfinished thread waits for another one,
\* whichever was created first.
C23_SpawnedInDetectionOrder ==
    /\ [][/\ Len(threads') \in {Len(threads), Len(threads) + 1}
          /\ \A i \in DOMAIN threads :
                threads'[i].audio_file = threads[i].audio_file
          /\ Len(threads') = Len(threads) + 1 =>
                /\ log'.fin = "emitted"
                /\ threads'[Len(threads')].audio_file.id = now'
                /\ threads'[Len(threads')].pc = "running"]_vars
    /\ [](\A i \in 1..(Len(threads) - 1) :
             threads[i].audio_file.id < threads[i + 1].audio_file.id)
    /\ [](\A i \in DOMAIN threads :
             threads[i].pc # "done" => ENABLED TaskStep(i))

\* The thread of the later recording has delivered its track and finished
\* while the thread of the earlier recording has not yet called the
\* recognizer; its delivery comes later.
C23_Witness ==
    /\ Len(threads) = 2
    /\ threads[1].audio_file.id < threads[2].audio_file.id
    /\ Len(delivered) = 2
    /\ delivered[1].thread = 2
    /\ delivered[1].outcome = "queued"
    /\ delivered[2].thread = 1
    /\ delivered[2].outcome = "queued"
    /\ \A i \in DOMAIN threads : threads[i].pc = "done"

\* The threads that have stored into stats['tracks_processed'].
WroteProcessed ==
    {i \in DOMAIN threads : threads[i].pc \notin {"running", "st_processed"}}

\* C25 as stated: no variable is written by two recognition threads, and
\* when all threads have finished tracks_processed is their number.
C25_NoSharedWritesClaim ==
    /\ (\A i \in DOMAIN threads : threads[i].pc = "done") =>
          stats.tracks_processed = Len(threads)
    /\ Cardinality(WroteProcessed) <= 1

\* C21 as stated: is_running is never true while no capture thread is
\* alive (a failed open aborts the start).
C21_RunningHasLiveLoopClaim ==
    is_running => \E i \in DOMAIN loops : Alive(loops[i])

\* The last stop_monitoring has returned and no capture thread is left.
Stopped ==
    /\ caller.pc = "idle"
    /\ caller.last = "stopped"
    /\ \A i \in DOMAIN loops : ~Alive(loops[i])

\* C22 as stated: once stop_monitoring has returned and the capture thread
\* has ended, the stream is released.
C22_StreamReleasedClaim == Stopped => stream = None

\* C22: a capture thread processes at most one chunk while is_running is
\* false; when it tests the flag and finds it false it ends, after
\* _close_stream; once stop_monitoring has returned and no capture thread is
\* left, self.stream is cleared unless the last attempt to close it raised;
\* and stop_monitoring neither touches the recognition threads or their
\* files nor waits for them: it returns as soon as the capture thread has
\* ended.
C22_StopEndsTheLoop ==
    /\ [](\A i \in DOMAIN loops : loops[i].since_stop <= 1)
    /\ [][\A i \in DOMAIN loops :
            (/\ loops[i].pc = "test"
             /\ ~is_running
             /\ loops'[i].pc # "test") =>
               /\ loops'[i].pc = "dead"
               /\ stream' = None \/ handles'[stream'] = "close_failed"]_vars
    /\ [](Stopped => stream = None \/ handles[stream] = "close_failed")
    /\ [][log'.kind = "stop" => threads' = threads /\ files' = files]_vars
    /\ []((caller.pc = "joining" /\ ~Alive(loops[audio_thread]))
            => ENABLED StopFinish)

\* stop_monitoring was called while the capture thread was in a read: the
\* thread processed that chunk, ended and closed the stream, the join
\* returned without timing out, and the recognition thread started before
\* the stop is still running.
C22_Witness ==
    /\ Stopped
    /\ ~caller.timed_out
    /\ Len(loops) = 1
    /\ loops[1].since_stop = 1
    /\ stream = None
    /\ handles = <<"closed">>
    /\ Len(threads) = 1
    /\ threads[1].pc = "running"

\* The capture threads that are in a read of a stream that is open.
Reading ==
    {i \in DOMAIN loops :
        loops[i].pc = "read" /\ handles[loops[i].handle] = "open"}

\* C30 as stated: at most one capture thread is reading the device.
C30_AtMostOneReaderClaim == Cardinality(Reading) <= 1

\* C32 as stated: a music chunk that arrives while no recording is in
\* progress, after a silence run that had lasted at least silence_duration
\* at its last silent chunk, starts a recording.
C32_MusicAfterSilenceStartsClaim ==
    [][(/\ ChunkStep
        /\ log'.kind = "music"
        /\ ~is_recording
        /\ silence_start_time # None
        /\ now - silence_start_time >= silence_duration) =>
          log'.started /\ is_recording']_vars

\* C33: a finalize leaves the segmenter not recording with an empty buffer
\* and last_track_end_time at the time of the chunk, whether the recording
\* was emitted, discarded as too short or failed to spool; and a recording
\* starts only more than silence_duration after the last finalize of any
\* kind.
C33_FinalizeResetsAndDelays ==
    [][ChunkStep =>
          /\ log'.fin # "none" =>
                /\ is_recording
                /\ BufAtFinalize # <<>>
                /\ ~is_recording'
                /\ current_recording' = <<>>
                /\ last_track_end_time' = now'
          /\ log'.fin = "none" => last_track_end_time' = last_track_end_time
          /\ log'.started => now' - last_track_end_time > silence_duration]_vars

\* A recording of one chunk has just been discarded as too short.
C33_Witness ==
    /\ log.fin = "discarded"
    /\ ~is_recording
    /\ current_recording = <<>>
    /\ last_track_end_time = now

\* C34: after every step the segmenter is recording if and only if the
\* buffer is not empty, and right after the chunk that started a recording
\* the buffer holds that chunk.
C34_RecordingIffBufferNonEmpty ==
    /\ is_recording <=> current_recording # <<>>
    /\ (log.started /\ log.kind = "music") => current_recording = <<now>>

\* A recording has just been started by a music chunk that came after a
\* discarded recording.
C34_Witness ==
    /\ log.started
    /\ is_recording
    /\ current_recording = <<now>>
    /\ last_track_end_time > 0
    /\ threads = <<>>
    /\ files = {}

\* C35: a silent chunk sets silence_start_time if it is unset, keeps it
\* otherwise and clears music_start_time; a music chunk clears
\* silence_start_time and sets music_start_time if it is unset, keeps it
\* otherwise; this also in the step that finalizes. So the two timers are
\* never both set, and after a chunk exactly one is.
C35_ExactlyOneTimer ==
    /\ [][ChunkStep =>
            /\ log'.kind = "silent" =>
                  /\ silence_start_time' = IF silence_start_time = None
                                           THEN now' ELSE silence_start_time
                  /\ music_start_time' = None
            /\ log'.kind = "music" =>
                  /\ silence_start_time' = None
                  /\ music_start_time' = IF music_start_time = None
                                         THEN now' ELSE music_start_time
            /\ (silence_start_time' = None) # (music_start_time' = None)]_vars
    /\ [](silence_start_time = None \/ music_start_time = None)

\* A silence run that has just finalized a recording: the silence timer
\* still holds the time of the first silent chunk of the run.
C35_Witness ==
    /\ log.kind = "silent"
    /\ log.fin = "emitted"
    /\ silence_start_time = now - silence_duration
    /\ music_start_time = None

\* C31 as stated: every result a recognition thread passes to queue_scrobble
\* has a confidence of at least min_confidence.
C31_DeliveredAboveThresholdClaim ==
    \A k \in DOMAIN delivered :
       delivered[k].result.confidence >= min_confidence

\* C36 as stated: no track is queued for scrobbling by two recognition
\* threads.
C36_SameTrackQueuedOnceClaim ==
    \A j, k \in DOMAIN delivered :
       (/\ j # k
        /\ delivered[j].outcome = "queued"
        /\ delivered[k].outcome = "queued") =>
          delivered[j].result.track # delivered[k].result.track

\* C37 as stated: the entry a scrobble_now call writes to the history or to
\* the retry queue carries the time of the payload the call POSTed.
C37_EntryTimeIsPayloadTimeClaim ==
    [][DeliverStep =>
          /\ Len(history') > Len(history) =>
                history'[Len(history')].timestamp = posts'[Len(posts')].time
          /\ Len(scrobble_queue') > Len(scrobble_queue) =>
                scrobble_queue'[Len(scrobble_queue')].timestamp
                   = posts'[Len(posts')].time]_vars

\* C38: a call with a valid result on an enabled backend whose POST was
\* accepted returns success and leaves the retry queue unchanged, whether
\* the history write succeeds (one record more) or raises (history
\* unchanged).
C38_SuccessDespiteHistoryFailure ==
    [][(/\ DeliverStep
        /\ ValidResult(ret'.call)
        /\ BackendEnabled
        /\ Accepted(ret'.call)) =>
          /\ ret'.status = "success"
          /\ scrobble_queue' = scrobble_queue
          /\ Len(posts') = Len(posts) + 1
          /\ IF ret'.call.db_ok
             THEN Len(history') = Len(history) + 1
             ELSE history' = history]_vars

\* The POST of the only call made was accepted, the history write raised,
\* and the call returned success; neither store holds an entry.
C38_Witness ==
    /\ ret.calls = 1
    /\ ret.status = "success"
    /\ Accepted(ret.call)
    /\ ~ret.call.db_ok
    /\ Len(posts) = 1
    /\ history = <<>>
    /\ scrobble_queue = <<>>

\* C39 as stated: one recognize_track invocation calls no provider twice.
C39_EachProviderOnceClaim ==
    \A i, j \in DOMAIN rec.calls :
       i # j => rec.calls[i].provider # rec.calls[j].provider

\* C39: in one recognize_track invocation every call is made for a
\* position of provider_order of its own, the positions are taken in
\* increasing order (a provider that failed or raised is not called again
\* for the same position), so the number of calls is at most the length of
\* provider_order, which is at most the length of the configured order;
\* each step of the loop makes at most one call and moves to the next
\* position, and the invocation has returned once the positions are used up.
C39_OneCallPerPosition ==
    /\ [](/\ \A i, j \in DOMAIN rec.calls :
               i < j => rec.calls[i].pos < rec.calls[j].pos
          /\ \A i \in DOMAIN rec.calls :
               /\ rec.calls[i].pos \in DOMAIN provider_order
               /\ rec.calls[i].provider = provider_order[rec.calls[i].pos]
          /\ Len(rec.calls) <= Len(provider_order)
          /\ Len(provider_order) <= Len(init_config.order))
    /\ [][rec.pc = "loop" =>
            /\ Len(rec'.calls) \in {Len(rec.calls), Len(rec.calls) + 1}
            /\ rec'.pc = "loop" => rec'.idx = rec.idx + 1
            /\ rec.idx > Len(provider_order) => rec'.pc = "done"]_vars

\* An invocation over two different providers has returned after two
\* calls: the first one raised and was not tried again, the second one
\* found no match.
C39_Witness ==
    /\ rec.pc = "done"
    /\ Len(provider_order) = 2
    /\ Len(rec.calls) = 2
    /\ rec.calls[1].outcome.raised
    /\ rec.calls[1].provider # rec.calls[2].provider
    /\ ~Succeeded(rec.calls[2])
    /\ rec.returned = NoMatch

====
